---- MODULE Spec2Model ----
(***************************************************************************)
(* Hand & Brain: the realtime lobby / game coordination server.            *)
(*                                                                         *)
(* Two builds of the WebSocket server exist in the repository: the Next.js *)
(* custom server (src/unnamed/part_010, lines 1-510) and the standalone    *)
(* server the Dockerfile starts (src/server/ws-server.js).  Their lobby     *)
(* handlers are the same; their selectPiece and makeMove handlers differ.  *)
(* The variable impl says which build is running.                          *)
(*                                                                         *)
(* Every handler is an async function that suspends only at its            *)
(* `await redis.get` and `await redis.set`.  Both go through the one       *)
(* client `redis`, one connection on which commands are answered in the    *)
(* order they were issued: redisq is that pipeline.  A command takes       *)
(* effect on the store when it is issued relative to every other command   *)
(* of the same connection, and the handler that issued it resumes when it  *)
(* reaches the head of redisq.                                             *)
(***************************************************************************)
EXTENDS Integers, Sequences, FiniteSets, TLC

VARIABLES
    impl,      \* "server" (part_010) or "ws" (server/ws-server.js)
    now,       \* Date.now()
    lobby,     \* the store's value under lobby:L, or NoLobby
    lobbyTtl,  \* the instant the store drops lobby:L, or NoTtl
    game,      \* the store's value under game:L, or NoGame
    sessions,  \* Map ws -> {lobbyId, playerId, gameId}, NoSession when absent
    rooms,     \* Map lobbyId -> Set<ws>; an absent entry is the empty set
    open,      \* ws.readyState === WebSocket.OPEN, per connection
    redisq,    \* handlers awaiting a reply of the server's redis connection
    restq,     \* route handlers awaiting a reply of the routes' redis connection
    lastOk,    \* history: the game operation that was accepted last
    roleAt,    \* history: per player, the instant of the last accepted role change
    last       \* observation: what the latest handler step did

vars == <<impl, now, lobby, lobbyTtl, game, sessions, rooms, open, redisq, restq,
          lastOk, roleAt, last>>

(***************************************************************************)
(* Bounds and input sets.                                                  *)
(***************************************************************************)
\* handlers of one game, and of the lobby, that may be between two steps
MaxInFlight == 3
MaxLobbyInFlight == 2

Conns == {"c1", "c2"}

\* the order in which a room (a Set<ws>) is walked
ConnOrder == <<"c1", "c2">>
LobbyId == "L"
GameIds == {"L"}
PlayerIds == {"a", "b", "c", "d"}
Squares == {"a2", "a3", "b2", "b3"}
PieceInputs == {"Q", "N", "P", "Z"}
T0 == 100000
MaxRest == 1

\* the ids that lobby requests name (a player object's id, a route's playerId)
LobbyPlayers == {"a", "b"}

\* the connections that send lobby messages
LobbyConns == {"c1"}

\* the id a connection's client puts in the player object of its messages
ClientId(c) == IF c = "c1" THEN "a" ELSE "b"
Teams == {"WHITE", "BLACK"}
Roles == {"HAND", "BRAIN"}

\* `const cooldownMs = 3000` (the realtime handler writes the literal)
cooldownMs == 3000

\* `const STALE_MS = 15_000`
STALE_MS == 15000

\* the instants at which something happens: the lobby's creation, and the
\* first instant at which a player seen at creation is stale
Instants == {T0, T0 + STALE_MS + 1}


(***************************************************************************)
(* Maps (JS objects used as dictionaries): functions over the present keys.*)
(***************************************************************************)
EmptyMap == [x \in {} |-> 0]

Put(m, k, v) == [x \in (DOMAIN m) \cup {k} |-> IF x = k THEN v ELSE m[x]]

Del(m, k) == [x \in (DOMAIN m) \ {k} |-> m[x]]

Has(m, k) == k \in DOMAIN m

(***************************************************************************)
(* The rules adapter (chess.js), which the server consumes as a black box: *)
(* a finite fragment of positions standing for FEN strings.  The board is  *)
(* the part of the position the requests of this model name.  Each answer  *)
(* the handlers branch on occurs: a kind with and without legal moves, a   *)
(* mate by either side, a stalemate, a draw that leaves legal moves, and a *)
(* mate that is also a draw by the fifty-move counter.                     *)
(***************************************************************************)
NoPiece == [color |-> "-", type |-> "-"]

WQ == [color |-> "w", type |-> "q"]

WP == [color |-> "w", type |-> "p"]

BN == [color |-> "b", type |-> "n"]

InitialFen == "p0"

Board(fen) ==
    CASE fen = "p0" -> [a2 |-> WP, a3 |-> BN, b2 |-> WQ, b3 |-> NoPiece]
      [] fen = "p1" -> [a2 |-> WP, a3 |-> BN, b2 |-> NoPiece, b3 |-> WQ]
      [] fen = "p2" -> [a2 |-> WP, a3 |-> WQ, b2 |-> NoPiece, b3 |-> NoPiece]
      [] fen = "p3" -> [a2 |-> WP, a3 |-> NoPiece, b2 |-> BN, b3 |-> WQ]
      [] fen = "p4" -> [a2 |-> WP, a3 |-> NoPiece, b2 |-> NoPiece, b3 |-> BN]
      [] fen = "p5" -> [a2 |-> WP, a3 |-> NoPiece, b2 |-> WQ, b3 |-> NoPiece]
      [] fen = "p6" -> [a2 |-> WP, a3 |-> WQ, b2 |-> BN, b3 |-> NoPiece]
      [] fen = "p7" -> [a2 |-> WP, a3 |-> WQ, b2 |-> NoPiece, b3 |-> BN]
      [] OTHER      -> [a2 |-> NoPiece, a3 |-> NoPiece, b2 |-> NoPiece, b3 |-> WP]

Mv(f, t, p, s, a) == [from |-> f, to |-> t, piece |-> p, san |-> s, after |-> a]

LegalMoves(fen) ==
    CASE fen = "p0" -> {Mv("b2", "b3", "q", "Qb3", "p1"), Mv("b2", "a3", "q", "Qxa3#", "p2")}
      [] fen = "p1" -> {Mv("a3", "b2", "n", "Nb2", "p3"), Mv("a3", "b3", "n", "Nxb3", "p4")}
      [] fen = "p3" -> {Mv("b3", "b2", "q", "Qxb2", "p5"), Mv("b3", "a3", "q", "Qa3", "p6")}
      [] fen = "p4" -> {Mv("a2", "b3", "p", "axb3", "p9")}
      [] fen = "p6" -> {Mv("b2", "b3", "n", "Nb3#", "p7")}
      [] OTHER      -> {}

\* chess.turn()
ChessTurn(fen) == IF fen \in {"p0", "p3", "p4", "p7"} THEN "w" ELSE "b"

\* chess.get(square): the piece on the square, or nothing
ChessGet(fen, sq) == IF sq \in Squares THEN Board(fen)[sq] ELSE NoPiece

\* chess.moves({ piece, verbose: true })
ChessMoves(fen, piece) == {m \in LegalMoves(fen) : m.piece = piece}

NoMove == Mv("-", "-", "-", "-", "-")

\* chess.move({ from, to, promotion }): the move made, or nothing when the
\* rules reject it (the handlers test the result with `if (!move)`)
ChessMove(fen, from, to) ==
    IF \E m \in LegalMoves(fen) : m.from = from /\ m.to = to
    THEN CHOOSE m \in LegalMoves(fen) : m.from = from /\ m.to = to
    ELSE NoMove

isCheckmate(fen) == fen \in {"p2", "p7"}

isStalemate(fen) == fen \in {"p5", "p9"}

isThreefoldRepetition(fen) == fen = "p4"

isInsufficientMaterial(fen) == FALSE

isDrawByFiftyMoves(fen) == fen = "p7"

isDraw(fen) ==
    \/ isDrawByFiftyMoves(fen)
    \/ isStalemate(fen)
    \/ isInsufficientMaterial(fen)
    \/ isThreefoldRepetition(fen)

isGameOver(fen) == isCheckmate(fen) \/ isStalemate(fen) \/ isDraw(fen)

\* String.prototype.toUpperCase / toLowerCase on a piece letter
ToUpperCase(s) ==
    CASE s = "k" -> "K" [] s = "q" -> "Q" [] s = "r" -> "R"
      [] s = "b" -> "B" [] s = "n" -> "N" [] s = "p" -> "P" [] OTHER -> s

ToLowerCase(s) ==
    CASE s = "K" -> "k" [] s = "Q" -> "q" [] s = "R" -> "r"
      [] s = "B" -> "b" [] s = "N" -> "n" [] s = "P" -> "p"
      [] s = "Z" -> "z" [] OTHER -> s

(***************************************************************************)
(* Records of the store.                                                   *)
(***************************************************************************)
NoLobby == [id |-> "none"]

NoGame == [id |-> "none"]

NoSession == [lobbyId |-> "none", playerId |-> "none", gameId |-> "none"]

\* TTL of a key that never expires (a plain SET discards the key's expiry)
NoTtl == -1

\* a role message's `selection`: {team, role}, or null
NullSelection == [team |-> "null", role |-> "null"]

Selections == {[team |-> t, role |-> r] : t \in Teams, r \in Roles} \cup {NullSelection}

\* the selections that lobby requests carry
LobbySelections == {s \in Selections : s.team # "BLACK"}

RoleKeys == {"whiteHand", "whiteBrain", "blackHand", "blackBrain"}

PlayerName(p) == "name-" \o p

NewPlayer(p) == [id |-> p, name |-> PlayerName(p), isObserver |-> TRUE]

PlayerIdsOf(lob) == {lob.players[i].id : i \in 1..Len(lob.players)}

\* POST /api/lobbies: the lobby a create request stores
CreateLobby(creator, t) ==
    [id |-> LobbyId,
     createdAt |-> t,
     expiresAt |-> t + 60 * 60 * 1000,
     players |-> <<NewPlayer(creator)>>,
     hostId |-> creator,
     readyPlayerIds |-> <<>>,
     roles |-> EmptyMap,
     lastRoleChangeAt |-> EmptyMap,
     lastSeen |-> Put(EmptyMap, creator, t),
     baseTimeSeconds |-> 300,
     incrementSeconds |-> 2]

\* roles.whiteHand && roles.whiteBrain && roles.blackHand && roles.blackBrain
filled(roles) == \A k \in RoleKeys : Has(roles, k)

\* mutant: every player of the lobby is listed as an observer
StartGame_AllObservers(lob, t) ==
    [id |-> lob.id,
     lobbyId |-> lob.id,
     fen |-> InitialFen,
     moveNumber |-> 0,
     turn |-> "WHITE",
     selectedPiece |-> "null",
     players |-> [whiteHand |-> lob.roles["whiteHand"],
                  whiteBrain |-> lob.roles["whiteBrain"],
                  blackHand |-> lob.roles["blackHand"],
                  blackBrain |-> lob.roles["blackBrain"],
                  observers |-> [i \in 1..Len(lob.players) |-> lob.players[i].id]],
     playerNames |-> [p \in PlayerIdsOf(lob) |-> PlayerName(p)],
     clocks |-> [whiteMs |-> 0, blackMs |-> 0, lastTickAt |-> t, runningFor |-> "null"],
     createdAt |-> t,
     status |-> "ACTIVE",
     result |-> "undefined",
     resultReason |-> "undefined",
     moves |-> <<>>]

\* the start handler's game object (gameId is the lobby id)
StartGame(lob, t) ==
    [id |-> lob.id,
     lobbyId |-> lob.id,
     fen |-> InitialFen,
     moveNumber |-> 0,
     turn |-> "WHITE",
     selectedPiece |-> "null",
     players |-> [whiteHand |-> lob.roles["whiteHand"],
                  whiteBrain |-> lob.roles["whiteBrain"],
                  blackHand |-> lob.roles["blackHand"],
                  blackBrain |-> lob.roles["blackBrain"],
                  observers |->
                      LET ids == [i \in 1..Len(lob.players) |-> lob.players[i].id]
                          held(pid) == \E k \in RoleKeys : lob.roles[k] = pid
                          keep(pid) == ~held(pid)
                      IN SelectSeq(ids, keep)],
     playerNames |-> [p \in PlayerIdsOf(lob) |-> PlayerName(p)],
     clocks |-> [whiteMs |-> 0, blackMs |-> 0, lastTickAt |-> t, runningFor |-> "null"],
     createdAt |-> t,
     status |-> "ACTIVE",
     result |-> "undefined",
     resultReason |-> "undefined",
     moves |-> <<>>]

(***************************************************************************)
(* Lobby records: what each handler makes of the lobby it read.  An error  *)
(* is the text the handler answers with, "" when the request passes, and   *)
(* "silent" when the handler returns without an answer.                    *)
(***************************************************************************)
roleKeyFromSelection(sel) ==
    IF sel.team = "WHITE" /\ sel.role = "HAND" THEN "whiteHand"
    ELSE IF sel.team = "WHITE" /\ sel.role = "BRAIN" THEN "whiteBrain"
    ELSE IF sel.team = "BLACK" /\ sel.role = "HAND" THEN "blackHand"
    ELSE "blackBrain"

\* for (k of Object.keys(roles)) if (roles[k] === p) roles[k] = undefined;
\* a slot set to undefined is absent from the JSON that is stored and sent
Vacate(roles, p) == [k \in {x \in DOMAIN roles : roles[x] # p} |-> roles[k]]

\* lob.lastRoleChangeAt[p] ?? 0
LastRoleChange(lob, p) ==
    IF Has(lob.lastRoleChangeAt, p) THEN lob.lastRoleChangeAt[p] ELSE 0

\* lastSeen[pid] || 0
SeenAt(lob, p) == IF Has(lob.lastSeen, p) THEN lob.lastSeen[p] ELSE 0

\* occ && occ !== p, on the roles left after p's own slot was vacated
OccupiedByOther(roles, rk, p) == Has(roles, rk) /\ roles[rk] # p

\* mutant: the expiresAt field is not looked at
JoinError_NoExpiryCheck(lob, t) ==
    IF lob = NoLobby THEN "Lobby not found or expired" ELSE ""

JoinError(lob, t) ==
    IF lob = NoLobby THEN "Lobby not found or expired"
    ELSE IF t > lob.expiresAt THEN "Lobby expired"
    ELSE ""

\* mutant: the player is appended without looking for the id
JoinResult_AlwaysAppends(lob, p, t) ==
    [lob EXCEPT !.players = Append(@, NewPlayer(p)), !.lastSeen = Put(@, p, t)]

JoinResult(lob, p, t) ==
    [lob EXCEPT
        !.players = IF p \in PlayerIdsOf(lob) THEN @ ELSE Append(@, NewPlayer(p)),
        !.lastSeen = Put(@, p, t)]

\* mutant: a taken slot is handed over
RoleError_NoOccupancyCheck(lob, p, sel, t) ==
    IF lob = NoLobby THEN "Lobby not found or expired"
    ELSE IF t > lob.expiresAt THEN "Lobby expired"
    ELSE IF t - LastRoleChange(lob, p) < cooldownMs THEN "Cooldown"
    ELSE ""

RoleError(lob, p, sel, t) ==
    IF lob = NoLobby THEN "Lobby not found or expired"
    ELSE IF t > lob.expiresAt THEN "Lobby expired"
    ELSE IF t - LastRoleChange(lob, p) < cooldownMs THEN "Cooldown"
    ELSE IF /\ sel # NullSelection
            /\ OccupiedByOther(Vacate(lob.roles, p), roleKeyFromSelection(sel), p)
         THEN "Role already occupied"
    ELSE ""

RoleResult_NoVacate(lob, p, sel, t) ==
    [lob EXCEPT
        !.roles = IF sel = NullSelection THEN @ ELSE Put(@, roleKeyFromSelection(sel), p),
        !.lastRoleChangeAt = Put(@, p, t),
        !.lastSeen = Put(@, p, t)]

\* mutant: the previous slot is vacated and the selected one is not assigned
RoleResult_DropsSlot(lob, p, sel, t) ==
    [lob EXCEPT
        !.roles = Vacate(@, p),
        !.lastRoleChangeAt = Put(@, p, t),
        !.lastSeen = Put(@, p, t)]

RoleResult(lob, p, sel, t) ==
    [lob EXCEPT
        !.roles = IF sel = NullSelection
                  THEN Vacate(@, p)
                  ELSE Put(Vacate(@, p), roleKeyFromSelection(sel), p),
        !.lastRoleChangeAt = Put(@, p, t),
        !.lastSeen = Put(@, p, t)]

\* lob.hostId || (lob.players[0] && lob.players[0].id)
HostOf(lob) ==
    IF Has(lob, "hostId") THEN lob.hostId
    ELSE IF Len(lob.players) > 0 THEN lob.players[1].id
    ELSE "undefined"

\* mutant: anyone may start
StartError_NoHostCheck(lob, p) ==
    IF lob = NoLobby THEN "silent"
    ELSE IF ~filled(lob.roles) THEN "All roles must be filled"
    ELSE ""

StartError(lob, p) ==
    IF lob = NoLobby THEN "silent"
    ELSE IF HostOf(lob) = "undefined" \/ HostOf(lob) # p THEN "Only host can start"
    ELSE IF ~filled(lob.roles) THEN "All roles must be filled"
    ELSE ""

HeartbeatResult(lob, p, t) == [lob EXCEPT !.lastSeen = Put(@, p, t)]

\* mutant: the player is removed and keeps the slots
CloseResult_KeepsRoles(lob, p) ==
    [lob EXCEPT
        !.players = LET keep(pl) == pl.id # p IN SelectSeq(@, keep),
        !.lastSeen = Del(@, p)]

CloseResult(lob, p) ==
    [lob EXCEPT
        !.players = LET keep(pl) == pl.id # p IN SelectSeq(@, keep),
        !.roles = Vacate(@, p),
        !.lastSeen = Del(@, p)]

\* POST /api/lobbies/:id/role
RestRoleError(lob, p, sel, t) ==
    IF lob = NoLobby THEN "Lobby expired or not found"
    ELSE IF t > lob.expiresAt THEN "Lobby expired"
    ELSE IF t - LastRoleChange(lob, p) < cooldownMs THEN "Cooldown"
    ELSE IF /\ sel # NullSelection
            /\ OccupiedByOther(Vacate(lob.roles, p), roleKeyFromSelection(sel), p)
         THEN "Role already occupied"
    ELSE ""

RestRoleResult(lob, p, sel, t) ==
    IF sel = NullSelection
    THEN [lob EXCEPT !.roles = Vacate(@, p), !.lastRoleChangeAt = Put(@, p, t)]
    ELSE [lob EXCEPT
             !.roles = Put(Vacate(@, p), roleKeyFromSelection(sel), p),
             !.lastRoleChangeAt = Put(@, p, t),
             !.lastSeen = Put(@, p, t)]

\* POST /api/lobbies/:id/join
RestJoinError(lob) == IF lob = NoLobby THEN "Lobby not found" ELSE ""

RestJoinResult(lob, p) ==
    [lob EXCEPT !.players = IF p \in PlayerIdsOf(lob) THEN @ ELSE Append(@, NewPlayer(p))]

\* POST /api/lobbies/:id/heartbeat, and the checks of GET /api/lobbies/:id
RestReadError(lob, t) ==
    IF lob = NoLobby THEN "Lobby expired or not found"
    ELSE IF t > lob.expiresAt THEN "Lobby expired"
    ELSE ""

\* mutant: a holder without a lastSeen entry is taken as seen just now
SweepResult_MissingIsFresh(lob, t) ==
    LET stale(k) == Has(lob.lastSeen, lob.roles[k]) /\ t - lob.lastSeen[lob.roles[k]] > STALE_MS
    IN [lob EXCEPT !.roles = [k \in {x \in DOMAIN lob.roles : ~stale(x)} |-> lob.roles[k]]]

\* GET /api/lobbies/:id: the stale role holders are vacated
SweepResult(lob, t) ==
    LET stale(k) == t - SeenAt(lob, lob.roles[k]) > STALE_MS
    IN [lob EXCEPT !.roles = [k \in {x \in DOMAIN lob.roles : ~stale(x)} |-> lob.roles[k]]]

(***************************************************************************)
(* Outbound messages.                                                      *)
(***************************************************************************)
ErrorMsg(e) == [type |-> "error", error |-> e]

GameMsg(g) == [type |-> "game", game |-> g]

LobbyMsg(lob) == [type |-> "lobby", lobby |-> lob]

JoinedMsg(lob) == [type |-> "joined", lobby |-> lob]

StartMsg(gameId) == [type |-> "start", gameId |-> gameId]

\* mutant: the message goes to every open connection
SendTo_Everyone(c, m) ==
    LET isOpen(x) == open[x]
        targets == SelectSeq(ConnOrder, isOpen)
    IN [i \in 1..Len(targets) |-> [to |-> targets[i], msg |-> m]]

\* ws.send(msg) on the connection of the request
SendTo(c, m) == IF open[c] THEN <<[to |-> c, msg |-> m]>> ELSE <<>>

\* mutant: the loop sends without looking at readyState
BroadcastIn_NoOpenCheck(rms, lobbyId, m) ==
    LET member(c) == lobbyId \in DOMAIN rms /\ c \in rms[lobbyId]
        members == SelectSeq(ConnOrder, member)
    IN [i \in 1..Len(members) |-> [to |-> members[i], msg |-> m]]

\* the loop `for (const client of set) if (client.readyState === OPEN) client.send(msg)`
BroadcastIn(rms, lobbyId, m) ==
    LET member(c) == lobbyId \in DOMAIN rms /\ c \in rms[lobbyId] /\ open[c]
        send(c) == [to |-> c, msg |-> m]
        members == SelectSeq(ConnOrder, member)
    IN [i \in 1..Len(members) |-> send(members[i])]

Broadcast(lobbyId, m) == BroadcastIn(rooms, lobbyId, m)

getNextActor(g) ==
    LET phase == IF g.selectedPiece # "null" THEN "BRAIN" ELSE "HAND"
    IN g.turn \o "_" \o phase

(***************************************************************************)
(* selectPiece: the checks between `await redis.get` and `await redis.set`. *)
(* The result is the error sent, "" when the request passes, and "silent"  *)
(* when the handler returns without a reply.                               *)
(***************************************************************************)
validPieces == {"K", "Q", "R", "B", "N", "P"}

\* mutant: the check that the kind has a legal move is left out
SelectPieceError_NoLegalCheck(im, g, req) ==
    IF g = NoGame THEN "silent"
    ELSE IF im = "server" /\ g.status # "ACTIVE" THEN "Game is over"
    ELSE IF req.playerId #
            (IF g.turn = "WHITE" THEN g.players.whiteHand ELSE g.players.blackHand)
         THEN "Not your turn (hand)"
    ELSE IF g.selectedPiece # "null" THEN "Piece already selected"
    ELSE IF req.piece \notin validPieces THEN "Invalid piece"
    ELSE ""

SelectPieceError(im, g, req) ==
    IF g = NoGame THEN "silent"
    ELSE IF im = "server" /\ g.status # "ACTIVE" THEN "Game is over"
    ELSE IF req.playerId #
            (IF g.turn = "WHITE" THEN g.players.whiteHand ELSE g.players.blackHand)
         THEN "Not your turn (hand)"
    ELSE IF g.selectedPiece # "null" THEN "Piece already selected"
    ELSE IF req.piece \notin validPieces THEN "Invalid piece"
    ELSE IF ChessMoves(g.fen, ToLowerCase(req.piece)) = {}
         THEN "No legal moves for selected piece"
    ELSE ""

SelectPieceResult(g, req) == [g EXCEPT !.selectedPiece = req.piece]

PieceSelectedMsg(gameId, g, req) ==
    [type |-> "pieceSelected", gameId |-> gameId, piece |-> req.piece,
     nextActor |-> getNextActor(g)]

(***************************************************************************)
(* makeMove: the checks, then the update of the game object.               *)
(***************************************************************************)
\* mutant: the kind of the piece on the from-square is not compared
MakeMoveError_NoKindCheck(g, req) ==
    IF g = NoGame THEN "silent"
    ELSE IF req.playerId #
            (IF g.turn = "WHITE" THEN g.players.whiteBrain ELSE g.players.blackBrain)
         THEN "Not your turn (brain)"
    ELSE IF g.selectedPiece = "null" THEN "Hand must select a piece first"
    ELSE IF ChessGet(g.fen, req.from) = NoPiece THEN "No piece at source"
    ELSE IF ChessGet(g.fen, req.from).color # (IF g.turn = "WHITE" THEN "w" ELSE "b")
         THEN "Wrong side piece"
    ELSE IF ChessMove(g.fen, req.from, req.to) = NoMove THEN "Illegal move"
    ELSE ""

\* mutant: the selection is tested before the actor
MakeMoveError_SelectionFirst(g, req) ==
    IF g = NoGame THEN "silent"
    ELSE IF g.selectedPiece = "null" THEN "Hand must select a piece first"
    ELSE IF req.playerId #
            (IF g.turn = "WHITE" THEN g.players.whiteBrain ELSE g.players.blackBrain)
         THEN "Not your turn (brain)"
    ELSE IF ChessGet(g.fen, req.from) = NoPiece THEN "No piece at source"
    ELSE IF ChessGet(g.fen, req.from).color # (IF g.turn = "WHITE" THEN "w" ELSE "b")
         THEN "Wrong side piece"
    ELSE IF ToUpperCase(ChessGet(g.fen, req.from).type) # g.selectedPiece
         THEN "Must move selected piece type"
    ELSE IF ChessMove(g.fen, req.from, req.to) = NoMove THEN "Illegal move"
    ELSE ""

MakeMoveError(g, req) ==
    IF g = NoGame THEN "silent"
    ELSE IF req.playerId #
            (IF g.turn = "WHITE" THEN g.players.whiteBrain ELSE g.players.blackBrain)
         THEN "Not your turn (brain)"
    ELSE IF g.selectedPiece = "null" THEN "Hand must select a piece first"
    ELSE IF ChessGet(g.fen, req.from) = NoPiece THEN "No piece at source"
    ELSE IF ChessGet(g.fen, req.from).color # (IF g.turn = "WHITE" THEN "w" ELSE "b")
         THEN "Wrong side piece"
    ELSE IF ToUpperCase(ChessGet(g.fen, req.from).type) # g.selectedPiece
         THEN "Must move selected piece type"
    ELSE IF ChessMove(g.fen, req.from, req.to) = NoMove THEN "Illegal move"
    ELSE ""

Flip(turn) == IF turn = "WHITE" THEN "BLACK" ELSE "WHITE"

\* mutant: the side to move in the final position is named the winner
ServerStatus_MatedSideWins(fen) ==
    IF isCheckmate(fen)
    THEN [status |-> IF ChessTurn(fen) = "w" THEN "WHITE_WON" ELSE "BLACK_WON",
          result |-> IF ChessTurn(fen) = "w" THEN "1-0" ELSE "0-1",
          resultReason |-> "Checkmate"]
    ELSE IF isStalemate(fen) \/ isDraw(fen)
    THEN [status |-> "DRAW", result |-> "1/2-1/2", resultReason |-> "Draw"]
    ELSE [status |-> "ACTIVE", result |-> "undefined", resultReason |-> "undefined"]

\* part_010: checkmate, else stalemate, else another draw, else the turn flips
ServerStatus(fen) ==
    IF isCheckmate(fen)
    THEN LET sideToMove == IF ChessTurn(fen) = "w" THEN "WHITE" ELSE "BLACK"
             winner == IF sideToMove = "WHITE" THEN "BLACK" ELSE "WHITE"
         IN [status |-> IF winner = "WHITE" THEN "WHITE_WON" ELSE "BLACK_WON",
             result |-> IF winner = "WHITE" THEN "1-0" ELSE "0-1",
             resultReason |-> "Checkmate"]
    ELSE IF isStalemate(fen)
    THEN [status |-> "DRAW", result |-> "1/2-1/2", resultReason |-> "Stalemate"]
    ELSE IF isDraw(fen)
    THEN [status |-> "DRAW", result |-> "1/2-1/2",
          resultReason |->
              IF isThreefoldRepetition(fen) THEN "Threefold repetition"
              ELSE IF isInsufficientMaterial(fen) THEN "Insufficient material"
              ELSE IF isDrawByFiftyMoves(fen) THEN "Fifty-move rule"
              ELSE "Draw"]
    ELSE [status |-> "ACTIVE", result |-> "undefined", resultReason |-> "undefined"]

ServerMoveResult(g, req) ==
    LET move == ChessMove(g.fen, req.from, req.to)
        st == ServerStatus(move.after)
    IN [g EXCEPT !.fen = move.after,
                 !.moveNumber = g.moveNumber + 1,
                 !.selectedPiece = "null",
                 !.turn = IF st.status = "ACTIVE" THEN Flip(g.turn) ELSE g.turn,
                 !.status = st.status,
                 !.result = st.result,
                 !.resultReason = st.resultReason,
                 !.moves = Append(g.moves, move.san)]

\* server/ws-server.js: the turn always flips; status from isGameOver
WsMoveResult(g, req) ==
    LET move == ChessMove(g.fen, req.from, req.to)
        turn == Flip(g.turn)
    IN [g EXCEPT !.fen = move.after,
                 !.moveNumber = g.moveNumber + 1,
                 !.turn = turn,
                 !.selectedPiece = "null",
                 !.status = IF isGameOver(move.after)
                            THEN (IF isCheckmate(move.after)
                                  THEN (IF turn = "WHITE" THEN "BLACK_WON" ELSE "WHITE_WON")
                                  ELSE "DRAW")
                            ELSE "ACTIVE",
                 !.moves = Append(g.moves, move.san)]

\* mutant: the selection survives the move
MakeMoveResult_KeepsSelection(im, g, req) ==
    [(IF im = "server" THEN ServerMoveResult(g, req) ELSE WsMoveResult(g, req))
        EXCEPT !.selectedPiece = g.selectedPiece]

MakeMoveResult(im, g, req) ==
    IF im = "server" THEN ServerMoveResult(g, req) ELSE WsMoveResult(g, req)

(***************************************************************************)
(* Requests, and the bookkeeping of a handler between its awaits.          *)
(* A message's fields other than gameId are first read after the reply of  *)
(* redis.get, so they are drawn when the handler resumes.                  *)
(***************************************************************************)
NoReq ==
    [playerId |-> "-", piece |-> "-", from |-> "-", to |-> "-", selection |-> NullSelection]

SelectReqs ==
    [playerId : PlayerIds, piece : PieceInputs, from : {"-"}, to : {"-"},
     selection : {NullSelection}]

MoveReqs ==
    [playerId : PlayerIds, piece : {"-"}, from : Squares, to : Squares,
     selection : {NullSelection}]

Pending(op, c, phase, gid, g, req) ==
    [op |-> op, conn |-> c, phase |-> phase, gameId |-> gid, g |-> g, req |-> req]

\* sent: the messages of the step in the order of the ws.send calls;
\* msgs: the same messages as a set
Event(op, step, c, gid, req, snap, out, err, sent) ==
    [op |-> op, step |-> step, conn |-> c, gameId |-> gid, req |-> req,
     snap |-> snap, out |-> out, err |-> err, sent |-> sent,
     msgs |-> {sent[i] : i \in 1..Len(sent)}]

NoEvent == Event("-", "init", "-", "-", NoReq, NoGame, NoGame, "", <<>>)

\* a lobby whose four roles are taken by four joined players
FullLobby ==
    [CreateLobby("a", T0) EXCEPT
        !.players = <<NewPlayer("a"), NewPlayer("b"), NewPlayer("c"), NewPlayer("d")>>,
        !.roles = [k \in RoleKeys |->
                      CASE k = "whiteHand" -> "a" [] k = "whiteBrain" -> "b"
                        [] k = "blackHand" -> "c" [] OTHER -> "d"],
        !.lastRoleChangeAt = [p \in PlayerIds |-> T0],
        !.lastSeen = [p \in PlayerIds |-> T0]]

\* a second lobby, and the game its host started: no message of the model
\* selects or moves in it, so its record stays as the start handler stored it
OtherLobbyId == "M"

OtherGame == [StartGame(FullLobby, T0) EXCEPT !.id = OtherLobbyId, !.lobbyId = OtherLobbyId]

\* redis.get(`game:${gameId}`) at the time the command is issued
getGame(gid) ==
    IF gid = LobbyId THEN game
    ELSE IF gid = OtherLobbyId THEN OtherGame
    ELSE NoGame

\* the handlers that are between two of their steps
InFlight == Len(redisq) + Len(restq)

HeadIs(op, phase) ==
    /\ redisq # <<>>
    /\ Head(redisq).op = op
    /\ Head(redisq).phase = phase

(***************************************************************************)
(* The selectPiece handler.                                                *)
(***************************************************************************)
RecvSelectPiece(c, gid) ==
    /\ open[c]
    /\ InFlight < MaxInFlight
    /\ redisq' = Append(redisq, Pending("selectPiece", c, "get", gid, getGame(gid), NoReq))
    /\ last' = Event("selectPiece", "recv", c, gid, NoReq, NoGame, NoGame, "", <<>>)
    /\ UNCHANGED <<impl, now, lobby, lobbyTtl, game, sessions, rooms, open, restq, lastOk, roleAt>>

SelectPieceStep(req) ==
    /\ HeadIs("selectPiece", "get")
    /\ LET h == Head(redisq)
           err == SelectPieceError(impl, h.g, req)
           out == SelectPieceResult(h.g, req)
       IN IF err = ""
          THEN /\ game' = out
               /\ redisq' = Append(Tail(redisq),
                                   Pending("selectPiece", h.conn, "set", h.gameId, out,
                                           [NoReq EXCEPT !.piece = req.piece]))
               /\ lastOk' = "selectPiece"
               /\ last' = Event("selectPiece", "set", h.conn, h.gameId, req, h.g, out, "", <<>>)
          ELSE /\ redisq' = Tail(redisq)
               /\ last' = Event("selectPiece", "reply", h.conn, h.gameId, req, h.g, h.g, err,
                                IF err = "silent" THEN <<>> ELSE SendTo(h.conn, ErrorMsg(err)))
               /\ UNCHANGED <<game, lastOk>>
    /\ UNCHANGED <<impl, now, lobby, lobbyTtl, sessions, rooms, open, restq, roleAt>>

SelectPieceBroadcast ==
    /\ HeadIs("selectPiece", "set")
    /\ LET h == Head(redisq)
       IN /\ redisq' = Tail(redisq)
          /\ last' = Event("selectPiece", "bcast", h.conn, h.gameId, h.req, h.g, h.g, "",
                           Broadcast(h.g.lobbyId, PieceSelectedMsg(h.gameId, h.g, h.req)))
    /\ UNCHANGED <<impl, now, lobby, lobbyTtl, game, sessions, rooms, open, restq, lastOk, roleAt>>

(***************************************************************************)
(* The makeMove handler.                                                   *)
(***************************************************************************)
RecvMakeMove(c, gid) ==
    /\ open[c]
    /\ InFlight < MaxInFlight
    /\ redisq' = Append(redisq, Pending("makeMove", c, "get", gid, getGame(gid), NoReq))
    /\ last' = Event("makeMove", "recv", c, gid, NoReq, NoGame, NoGame, "", <<>>)
    /\ UNCHANGED <<impl, now, lobby, lobbyTtl, game, sessions, rooms, open, restq, lastOk, roleAt>>

MakeMoveStep(req) ==
    /\ HeadIs("makeMove", "get")
    /\ LET h == Head(redisq)
           err == MakeMoveError(h.g, req)
           out == MakeMoveResult(impl, h.g, req)
       IN IF err = ""
          THEN /\ game' = out
               /\ redisq' = Append(Tail(redisq),
                                   Pending("makeMove", h.conn, "set", h.gameId, out, NoReq))
               /\ lastOk' = "makeMove"
               /\ last' = Event("makeMove", "set", h.conn, h.gameId, req, h.g, out, "", <<>>)
          ELSE /\ redisq' = Tail(redisq)
               /\ last' = Event("makeMove", "reply", h.conn, h.gameId, req, h.g, h.g, err,
                                IF err = "silent" THEN <<>> ELSE SendTo(h.conn, ErrorMsg(err)))
               /\ UNCHANGED <<game, lastOk>>
    /\ UNCHANGED <<impl, now, lobby, lobbyTtl, sessions, rooms, open, restq, roleAt>>

MakeMoveBroadcast ==
    /\ HeadIs("makeMove", "set")
    /\ LET h == Head(redisq)
       IN /\ redisq' = Tail(redisq)
          /\ last' = Event("makeMove", "bcast", h.conn, h.gameId, h.req, h.g, h.g, "",
                           Broadcast(h.g.lobbyId, GameMsg(h.g)))
    /\ UNCHANGED <<impl, now, lobby, lobbyTtl, game, sessions, rooms, open, restq, lastOk, roleAt>>

(***************************************************************************)
(* SpecGame: a started game.  The lobby had its four roles filled and the  *)
(* host's start request stored the game; some connections are in the room. *)
(***************************************************************************)
InitGame ==
    /\ impl \in {"server", "ws"}
    /\ now = T0
    /\ lobby = FullLobby
    /\ lobbyTtl = NoTtl
    /\ game = StartGame(FullLobby, T0)
    /\ sessions = [c \in Conns |-> NoSession]
    /\ rooms = [l \in {LobbyId} |-> {"c1"}]
    /\ open = [c \in Conns |-> TRUE]
    /\ redisq = <<>>
    /\ restq = <<>>
    /\ lastOk = "none"
    /\ roleAt = lobby.lastRoleChangeAt
    /\ last = NoEvent

NextGame ==
    \/ \E c \in Conns, gid \in GameIds : RecvSelectPiece(c, gid)
    \/ \E c \in Conns, gid \in GameIds : RecvMakeMove(c, gid)
    \/ \E req \in SelectReqs : SelectPieceStep(req)
    \/ SelectPieceBroadcast
    \/ \E req \in MoveReqs : MakeMoveStep(req)
    \/ MakeMoveBroadcast

SpecGame == InitGame /\ [][NextGame]_vars

(***************************************************************************)
(* The lobby handlers of the realtime server.  `sess` is read when the     *)
(* message arrives, before the handler's first await; the other fields of  *)
(* the message are first read after the reply of redis.get.                *)
(***************************************************************************)
\* redis.get(`lobby:${lobbyId}`) at the time the command is issued
getLobby(lid) == IF lid = LobbyId THEN lobby ELSE NoLobby

Session(lid, p) == [lobbyId |-> lid, playerId |-> p, gameId |-> "none"]

\* mutant: the connection is not added to the room
joinRoom_NotAdded(rms, lid, c) == rms

joinRoom(rms, lid, c) == [rms EXCEPT ![lid] = @ \cup {c}]

leaveRoom(rms, lid, c) == IF lid \in DOMAIN rms THEN [rms EXCEPT ![lid] = @ \ {c}] ELSE rms

ReqOf(p, sel) == [NoReq EXCEPT !.playerId = p, !.selection = sel]

\* a message of a connection without a session: `if (!sess) return;`
NoSessionReturn(op, c) ==
    /\ last' = Event(op, "reply", c, "none", NoReq, NoLobby, NoLobby, "silent", <<>>)
    /\ UNCHANGED redisq

RecvJoin(c, lid) ==
    /\ open[c]
    /\ InFlight < MaxLobbyInFlight
    /\ redisq' = Append(redisq, Pending("join", c, "get", lid, getLobby(lid), NoReq))
    /\ last' = Event("join", "recv", c, lid, NoReq, NoLobby, NoLobby, "", <<>>)
    /\ UNCHANGED <<impl, now, lobby, lobbyTtl, game, sessions, rooms, open, restq, lastOk, roleAt>>

JoinStep(p) ==
    /\ HeadIs("join", "get")
    /\ LET h == Head(redisq)
           err == JoinError(h.g, now)
           out == JoinResult(h.g, p, now)
       IN IF err = ""
          THEN /\ lobby' = out
               /\ lobbyTtl' = NoTtl
               /\ redisq' = Append(Tail(redisq),
                                   Pending("join", h.conn, "set", h.gameId, out, ReqOf(p, NullSelection)))
               /\ last' = Event("join", "set", h.conn, h.gameId, ReqOf(p, NullSelection),
                                h.g, out, "", <<>>)
          ELSE /\ redisq' = Tail(redisq)
               /\ last' = Event("join", "reply", h.conn, h.gameId, ReqOf(p, NullSelection),
                                h.g, h.g, err, SendTo(h.conn, ErrorMsg(err)))
               /\ UNCHANGED <<lobby, lobbyTtl>>
    /\ UNCHANGED <<impl, now, game, sessions, rooms, open, restq, lastOk, roleAt>>

JoinDone ==
    /\ HeadIs("join", "set")
    /\ LET h == Head(redisq)
           rms == joinRoom(rooms, h.gameId, h.conn)
       IN /\ redisq' = Tail(redisq)
          /\ sessions' = [sessions EXCEPT ![h.conn] = Session(h.gameId, h.req.playerId)]
          /\ rooms' = rms
          /\ last' = Event("join", "bcast", h.conn, h.gameId, h.req, h.g, h.g, "",
                           SendTo(h.conn, JoinedMsg(h.g))
                               \o BroadcastIn(rms, h.gameId, LobbyMsg(h.g)))
    /\ UNCHANGED <<impl, now, lobby, lobbyTtl, game, open, restq, lastOk, roleAt>>

RecvRole(c) ==
    /\ open[c]
    /\ IF sessions[c] = NoSession
       THEN NoSessionReturn("role", c)
       ELSE /\ InFlight < MaxLobbyInFlight
            /\ redisq' = Append(redisq,
                                Pending("role", c, "get", sessions[c].lobbyId,
                                        getLobby(sessions[c].lobbyId),
                                        ReqOf(sessions[c].playerId, NullSelection)))
            /\ last' = Event("role", "recv", c, sessions[c].lobbyId, NoReq,
                             NoLobby, NoLobby, "", <<>>)
    /\ UNCHANGED <<impl, now, lobby, lobbyTtl, game, sessions, rooms, open, restq, lastOk, roleAt>>

RoleStep(sel) ==
    /\ HeadIs("role", "get")
    /\ LET h == Head(redisq)
           p == h.req.playerId
           err == RoleError(h.g, p, sel, now)
           out == RoleResult(h.g, p, sel, now)
       IN /\ IF err = ""
             THEN /\ lobby' = out
                  /\ lobbyTtl' = NoTtl
                  /\ redisq' = Append(Tail(redisq),
                                      Pending("role", h.conn, "set", h.gameId, out, h.req))
                  /\ last' = Event("role", "set", h.conn, h.gameId, ReqOf(p, sel), h.g, out, "", <<>>)
             ELSE /\ redisq' = Tail(redisq)
                  /\ last' = Event("role", "reply", h.conn, h.gameId, ReqOf(p, sel), h.g, h.g, err,
                                   SendTo(h.conn, ErrorMsg(err)))
                  /\ UNCHANGED <<lobby, lobbyTtl>>
          /\ roleAt' = IF err = "" THEN Put(roleAt, p, now) ELSE roleAt
    /\ UNCHANGED <<impl, now, game, sessions, rooms, open, restq, lastOk>>

RoleBroadcast ==
    /\ HeadIs("role", "set")
    /\ LET h == Head(redisq)
       IN /\ redisq' = Tail(redisq)
          /\ last' = Event("role", "bcast", h.conn, h.gameId, h.req, h.g, h.g, "",
                           Broadcast(h.gameId, LobbyMsg(h.g)))
    /\ UNCHANGED <<impl, now, lobby, lobbyTtl, game, sessions, rooms, open, restq, lastOk, roleAt>>

RecvStart(c) ==
    /\ open[c]
    /\ IF sessions[c] = NoSession
       THEN NoSessionReturn("start", c)
       ELSE /\ InFlight < MaxLobbyInFlight
            /\ redisq' = Append(redisq,
                                Pending("start", c, "get", sessions[c].lobbyId,
                                        getLobby(sessions[c].lobbyId),
                                        ReqOf(sessions[c].playerId, NullSelection)))
            /\ last' = Event("start", "recv", c, sessions[c].lobbyId, NoReq,
                             NoLobby, NoLobby, "", <<>>)
    /\ UNCHANGED <<impl, now, lobby, lobbyTtl, game, sessions, rooms, open, restq, lastOk, roleAt>>

StartStep ==
    /\ HeadIs("start", "get")
    /\ LET h == Head(redisq)
           err == StartError(h.g, h.req.playerId)
       IN IF err = ""
          THEN LET out == StartGame(h.g, now)
               IN /\ game' = out
                  /\ redisq' = Append(Tail(redisq),
                                      Pending("start", h.conn, "set", h.gameId, out, h.req))
                  /\ last' = Event("start", "set", h.conn, h.gameId, h.req, h.g, out, "", <<>>)
          ELSE /\ redisq' = Tail(redisq)
               /\ last' = Event("start", "reply", h.conn, h.gameId, h.req, h.g, h.g, err,
                                IF err = "silent" THEN <<>> ELSE SendTo(h.conn, ErrorMsg(err)))
               /\ UNCHANGED game
    /\ UNCHANGED <<impl, now, lobby, lobbyTtl, sessions, rooms, open, restq, lastOk, roleAt>>

StartBroadcast ==
    /\ HeadIs("start", "set")
    /\ LET h == Head(redisq)
       IN /\ redisq' = Tail(redisq)
          /\ last' = Event("start", "bcast", h.conn, h.gameId, h.req, h.g, h.g, "",
                           Broadcast(h.gameId, StartMsg(h.gameId))
                               \o Broadcast(h.gameId, GameMsg(h.g)))
    /\ UNCHANGED <<impl, now, lobby, lobbyTtl, game, sessions, rooms, open, restq, lastOk, roleAt>>

RecvHeartbeat(c) ==
    /\ open[c]
    /\ IF sessions[c] = NoSession
       THEN NoSessionReturn("heartbeat", c)
       ELSE /\ InFlight < MaxLobbyInFlight
            /\ redisq' = Append(redisq,
                                Pending("heartbeat", c, "get", sessions[c].lobbyId,
                                        getLobby(sessions[c].lobbyId),
                                        ReqOf(sessions[c].playerId, NullSelection)))
            /\ last' = Event("heartbeat", "recv", c, sessions[c].lobbyId, NoReq,
                             NoLobby, NoLobby, "", <<>>)
    /\ UNCHANGED <<impl, now, lobby, lobbyTtl, game, sessions, rooms, open, restq, lastOk, roleAt>>

\* nothing follows the handler's `await setLobby(lob)`
HeartbeatStep ==
    /\ HeadIs("heartbeat", "get")
    /\ LET h == Head(redisq)
           out == HeartbeatResult(h.g, h.req.playerId, now)
       IN /\ redisq' = Tail(redisq)
          /\ IF h.g = NoLobby
             THEN /\ last' = Event("heartbeat", "reply", h.conn, h.gameId, h.req, h.g, h.g,
                                   "silent", <<>>)
                  /\ UNCHANGED <<lobby, lobbyTtl>>
             ELSE /\ lobby' = out
                  /\ lobbyTtl' = NoTtl
                  /\ last' = Event("heartbeat", "set", h.conn, h.gameId, h.req, h.g, out, "", <<>>)
    /\ UNCHANGED <<impl, now, game, sessions, rooms, open, restq, lastOk, roleAt>>

\* ws.on("close"): the socket is closed when the handler runs
Close(c) ==
    /\ open[c]
    /\ open' = [open EXCEPT ![c] = FALSE]
    /\ IF sessions[c] = NoSession
       THEN /\ last' = Event("close", "reply", c, "none", NoReq, NoLobby, NoLobby, "silent", <<>>)
            /\ UNCHANGED <<sessions, rooms, redisq>>
       ELSE /\ InFlight < MaxLobbyInFlight
            /\ sessions' = [sessions EXCEPT ![c] = NoSession]
            /\ rooms' = leaveRoom(rooms, sessions[c].lobbyId, c)
            /\ redisq' = Append(redisq,
                                Pending("close", c, "get", sessions[c].lobbyId,
                                        getLobby(sessions[c].lobbyId),
                                        ReqOf(sessions[c].playerId, NullSelection)))
            /\ last' = Event("close", "recv", c, sessions[c].lobbyId, NoReq,
                             NoLobby, NoLobby, "", <<>>)
    /\ UNCHANGED <<impl, now, lobby, lobbyTtl, game, restq, lastOk, roleAt>>

CloseStep ==
    /\ HeadIs("close", "get")
    /\ LET h == Head(redisq)
           out == CloseResult(h.g, h.req.playerId)
       IN IF h.g = NoLobby
          THEN /\ redisq' = Tail(redisq)
               /\ last' = Event("close", "reply", h.conn, h.gameId, h.req, h.g, h.g, "silent", <<>>)
               /\ UNCHANGED <<lobby, lobbyTtl>>
          ELSE /\ lobby' = out
               /\ lobbyTtl' = NoTtl
               /\ redisq' = Append(Tail(redisq),
                                   Pending("close", h.conn, "set", h.gameId, out, h.req))
               /\ last' = Event("close", "set", h.conn, h.gameId, h.req, h.g, out, "", <<>>)
    /\ UNCHANGED <<impl, now, game, sessions, rooms, open, restq, lastOk, roleAt>>

CloseBroadcast ==
    /\ HeadIs("close", "set")
    /\ LET h == Head(redisq)
       IN /\ redisq' = Tail(redisq)
          /\ last' = Event("close", "bcast", h.conn, h.gameId, h.req, h.g, h.g, "",
                           Broadcast(h.gameId, LobbyMsg(h.g)))
    /\ UNCHANGED <<impl, now, lobby, lobbyTtl, game, sessions, rooms, open, restq, lastOk, roleAt>>

\* wss.on("connection"): a new socket; the name of a closed socket that
\* nothing refers to any more stands for it
Connect(c) ==
    /\ ~open[c]
    /\ sessions[c] = NoSession
    /\ \A l \in DOMAIN rooms : c \notin rooms[l]
    /\ \A i \in 1..Len(redisq) : redisq[i].conn # c
    /\ open' = [open EXCEPT ![c] = TRUE]
    /\ last' = Event("connect", "recv", c, "none", NoReq, NoLobby, NoLobby, "", <<>>)
    /\ UNCHANGED <<impl, now, lobby, lobbyTtl, game, sessions, rooms, redisq, restq, lastOk, roleAt>>

(***************************************************************************)
(* The joinGame handler: it reads the game and writes nothing to the store.*)
(***************************************************************************)
\* the `player` of a joinGame message: an object with an id, or absent
JoinGamePlayers == {"a", "undefined"}

\* player?.id || prev.playerId || ""
JoinGamePlayerId(p, prev) ==
    IF p # "undefined" THEN p
    ELSE IF prev # NoSession THEN prev.playerId
    ELSE ""

\* mutant: the session is left as it was
JoinGameSession_KeepsPrev(prev, g, gid, p) == prev

\* sessions.set(ws, { ...prev, lobbyId: game.lobbyId, playerId, gameId })
JoinGameSession(prev, g, gid, p) ==
    [lobbyId |-> g.lobbyId, playerId |-> JoinGamePlayerId(p, prev), gameId |-> gid]

RecvJoinGame(c, gid) ==
    /\ open[c]
    /\ InFlight < MaxLobbyInFlight
    /\ redisq' = Append(redisq, Pending("joinGame", c, "get", gid, getGame(gid), NoReq))
    /\ last' = Event("joinGame", "recv", c, gid, NoReq, NoGame, NoGame, "", <<>>)
    /\ UNCHANGED <<impl, now, lobby, lobbyTtl, game, sessions, rooms, open, restq, lastOk, roleAt>>

JoinGameStep(p) ==
    /\ HeadIs("joinGame", "get")
    /\ LET h == Head(redisq)
           req == ReqOf(p, NullSelection)
       IN /\ redisq' = Tail(redisq)
          /\ IF h.g = NoGame
             THEN /\ last' = Event("joinGame", "reply", h.conn, h.gameId, req, h.g, h.g,
                                   "Game not found", SendTo(h.conn, ErrorMsg("Game not found")))
                  /\ UNCHANGED <<sessions, rooms>>
             ELSE /\ rooms' = joinRoom(rooms, h.g.lobbyId, h.conn)
                  /\ sessions' = [sessions EXCEPT ![h.conn] =
                                     JoinGameSession(sessions[h.conn], h.g, h.gameId, p)]
                  /\ last' = Event("joinGame", "bcast", h.conn, h.gameId, req, h.g, h.g, "",
                                   SendTo(h.conn, GameMsg(h.g)))
    /\ UNCHANGED <<impl, now, lobby, lobbyTtl, game, open, restq, lastOk, roleAt>>

(***************************************************************************)
(* The request/response routes.  They share the store with the realtime    *)
(* server and reach it through a connection of their own (lib/redis.ts),   *)
(* so their commands interleave freely with those of redisq.               *)
(***************************************************************************)
RestOps == {"restJoin", "restRole", "restHeartbeat", "restGet"}

\* the routes that SpecLobby calls
LobbyRestOps == {"restRole", "restGet"}

RestHeadIs(op) == restq # <<>> /\ Head(restq).op = op

\* POST /api/lobbies: one SET with EX, no read
RestCreate(creator) ==
    /\ now = T0
    /\ lobby = NoLobby
    /\ lobby' = CreateLobby(creator, now)
    /\ lobbyTtl' = now + 60 * 60 * 1000
    /\ last' = Event("restCreate", "set", "rest", LobbyId, ReqOf(creator, NullSelection),
                     NoLobby, CreateLobby(creator, now), "", <<>>)
    /\ UNCHANGED <<impl, now, game, sessions, rooms, open, redisq, restq, lastOk, roleAt>>

RestRecv(op, lid) ==
    /\ Len(restq) < MaxRest
    /\ InFlight < MaxLobbyInFlight
    /\ restq' = Append(restq, Pending(op, "rest", "get", lid, getLobby(lid), NoReq))
    /\ last' = Event(op, "recv", "rest", lid, NoReq, NoLobby, NoLobby, "", <<>>)
    /\ UNCHANGED <<impl, now, lobby, lobbyTtl, game, sessions, rooms, open, redisq, lastOk, roleAt>>

\* the end of a route handler: it answers err, or stores out and answers 200
RestFinish(op, req, err, out, write) ==
    LET h == Head(restq)
    IN /\ restq' = Tail(restq)
       /\ IF err = "" /\ write
          THEN /\ lobby' = out
               /\ lobbyTtl' = NoTtl
               /\ last' = Event(op, "set", "rest", h.gameId, req, h.g, out, "", <<>>)
          ELSE /\ last' = Event(op, "reply", "rest", h.gameId, req, h.g, h.g, err, <<>>)
               /\ UNCHANGED <<lobby, lobbyTtl>>
       /\ roleAt' = IF op = "restRole" /\ err = "" THEN Put(roleAt, req.playerId, now) ELSE roleAt
       /\ UNCHANGED <<impl, now, game, sessions, rooms, open, redisq, lastOk>>

RestJoinStep(p) ==
    /\ RestHeadIs("restJoin")
    /\ LET h == Head(restq)
       IN RestFinish("restJoin", ReqOf(p, NullSelection), RestJoinError(h.g),
                     RestJoinResult(h.g, p), p \notin PlayerIdsOf(h.g))

RestRoleStep(p, sel) ==
    /\ RestHeadIs("restRole")
    /\ LET h == Head(restq)
       IN RestFinish("restRole", ReqOf(p, sel), RestRoleError(h.g, p, sel, now),
                     RestRoleResult(h.g, p, sel, now), TRUE)

RestHeartbeatStep(p) ==
    /\ RestHeadIs("restHeartbeat")
    /\ LET h == Head(restq)
       IN RestFinish("restHeartbeat", ReqOf(p, NullSelection), RestReadError(h.g, now),
                     HeartbeatResult(h.g, p, now), TRUE)

\* GET /api/lobbies/:id: written back only `if (changed)`
RestGetStep ==
    /\ RestHeadIs("restGet")
    /\ LET h == Head(restq)
       IN RestFinish("restGet", NoReq, RestReadError(h.g, now),
                     SweepResult(h.g, now), SweepResult(h.g, now) # h.g)

\* time passes; the store drops a key whose expiry is reached
Tick(t) ==
    /\ t > now
    /\ now' = t
    /\ IF lobbyTtl # NoTtl /\ t >= lobbyTtl
       THEN lobby' = NoLobby /\ lobbyTtl' = NoTtl
       ELSE UNCHANGED <<lobby, lobbyTtl>>
    /\ last' = Event("tick", "tick", "-", "-", NoReq, NoLobby, NoLobby, "", <<>>)
    /\ UNCHANGED <<impl, game, sessions, rooms, open, redisq, restq, lastOk, roleAt>>

(***************************************************************************)
(* SpecLobby: a lobby whose four roles were taken when it was created, by  *)
(* four joined players.  The host is connected and in the room.  The lobby *)
(* handlers are the same in both builds of the server.                     *)
(***************************************************************************)
InitLobby ==
    /\ impl = "ws"
    /\ now = T0
    /\ lobby = FullLobby
    /\ lobbyTtl = NoTtl
    /\ game = NoGame
    /\ sessions = [c \in Conns |-> IF c = "c1" THEN Session(LobbyId, "a") ELSE NoSession]
    /\ rooms = [l \in {LobbyId} |-> {"c1"}]
    /\ open = [c \in Conns |-> TRUE]
    /\ redisq = <<>>
    /\ restq = <<>>
    /\ lastOk = "none"
    /\ roleAt = lobby.lastRoleChangeAt
    /\ last = NoEvent

NextLobby ==
    \/ \E t \in Instants : Tick(t)
    \/ \E c \in LobbyConns : RecvJoin(c, LobbyId)
    \/ \E p \in LobbyPlayers : HeadIs("join", "get") /\ p = ClientId(Head(redisq).conn) /\ JoinStep(p)
    \/ JoinDone
    \/ \E c \in LobbyConns : RecvRole(c)
    \/ \E sel \in LobbySelections : RoleStep(sel)
    \/ RoleBroadcast
    \/ \E c \in LobbyConns : RecvStart(c)
    \/ StartStep
    \/ StartBroadcast
    \/ \E c \in LobbyConns : RecvHeartbeat(c)
    \/ HeartbeatStep
    \/ \E c \in LobbyConns : Close(c)
    \/ CloseStep
    \/ CloseBroadcast
    \/ \E op \in LobbyRestOps : RestRecv(op, LobbyId)
    \/ \E p \in LobbyPlayers, sel \in LobbySelections : RestRoleStep(p, sel)
    \/ RestGetStep

SpecLobby == InitLobby /\ [][NextLobby]_vars

(***************************************************************************)
(* SpecStart: a lobby of joined players before its game is started.  The   *)
(* host "a" and the player "b" are connected and in the room.  The lobby   *)
(* is one with all four roles taken, one with a fifth player who holds no  *)
(* role, one stored without hostId (a legacy lobby: its first player is    *)
(* the host), or one with a slot still free; the roles were taken a        *)
(* cooldown before the start.                                              *)
(***************************************************************************)
SettledLobby == [FullLobby EXCEPT !.lastRoleChangeAt = [p \in PlayerIds |-> T0 - cooldownMs]]

WithoutHostId(lob) == [k \in DOMAIN lob \ {"hostId"} |-> lob[k]]

StartLobbies ==
    { SettledLobby,
      [SettledLobby EXCEPT !.players = Append(@, NewPlayer("e"))],
      WithoutHostId([SettledLobby EXCEPT
                        !.players = <<NewPlayer("b"), NewPlayer("a"), NewPlayer("c"),
                                      NewPlayer("d")>>]),
      [SettledLobby EXCEPT !.roles = Del(@, "blackBrain")] }

\* the selectPiece requests of SpecStart
StartSelectReqs == {r \in SelectReqs : r.playerId = "a" /\ r.piece \in {"Q", "N"}}

\* the makeMove requests of SpecStart
StartMoveReqs == {r \in MoveReqs : r.playerId = "b" /\ r.from = "b2" /\ r.to \in {"b3", "b2"}}

InitStart ==
    /\ impl = "ws"
    /\ now = T0
    /\ lobby \in StartLobbies
    /\ lobbyTtl = NoTtl
    /\ game = NoGame
    /\ sessions = [c \in Conns |-> Session(LobbyId, ClientId(c))]
    /\ rooms = [l \in {LobbyId} |-> Conns]
    /\ open = [c \in Conns |-> TRUE]
    /\ redisq = <<>>
    /\ restq = <<>>
    /\ lastOk = "none"
    /\ roleAt = lobby.lastRoleChangeAt
    /\ last = NoEvent

NextStart ==
    \/ \E c \in Conns : RecvStart(c)
    \/ StartStep
    \/ StartBroadcast
    \/ \E c \in LobbyConns : RecvSelectPiece(c, LobbyId)
    \/ \E req \in StartSelectReqs : SelectPieceStep(req)
    \/ SelectPieceBroadcast
    \/ \E c \in LobbyConns : RecvMakeMove(c, LobbyId)
    \/ \E req \in StartMoveReqs : MakeMoveStep(req)
    \/ MakeMoveBroadcast
    \/ \E c \in LobbyConns : RecvJoinGame(c, LobbyId)
    \/ \E p \in JoinGamePlayers : JoinGameStep(p)
    \/ \E c \in LobbyConns : RecvJoin(c, LobbyId)
    \/ \E p \in LobbyPlayers : HeadIs("join", "get") /\ p = ClientId(Head(redisq).conn) /\ JoinStep(p)
    \/ JoinDone
    \/ \E c \in LobbyConns : RecvRole(c)
    \/ \E sel \in LobbySelections : RoleStep(sel)
    \/ RoleBroadcast
    \/ \E c \in LobbyConns : RecvHeartbeat(c)
    \/ HeartbeatStep
    \/ \E c \in Conns : Close(c)
    \/ CloseStep
    \/ CloseBroadcast

SpecStart == InitStart /\ [][NextStart]_vars

(***************************************************************************)
(* SpecRoom: a lobby that its host "a" has just created.  Connections join *)
(* it under the id "a" or "b" (the same player may use two connections),   *)
(* take the slot whiteHand and close; the join route adds players as well. *)
(***************************************************************************)
RoomPlayers == {"a", "b"}

RoomSelections == {[team |-> "WHITE", role |-> "HAND"]}

InitRoom ==
    /\ impl = "ws"
    /\ now = T0
    /\ lobby = CreateLobby("a", T0)
    /\ lobbyTtl = T0 + 60 * 60 * 1000
    /\ game = NoGame
    /\ sessions = [c \in Conns |-> NoSession]
    /\ rooms = [l \in {LobbyId} |-> {}]
    /\ open = [c \in Conns |-> TRUE]
    /\ redisq = <<>>
    /\ restq = <<>>
    /\ lastOk = "none"
    /\ roleAt = lobby.lastRoleChangeAt
    /\ last = NoEvent

NextRoom ==
    \/ \E c \in Conns : RecvJoin(c, LobbyId)
    \/ \E p \in RoomPlayers : JoinStep(p)
    \/ JoinDone
    \/ \E c \in Conns : RecvRole(c)
    \/ \E sel \in RoomSelections : RoleStep(sel)
    \/ RoleBroadcast
    \/ \E c \in Conns : Close(c)
    \/ CloseStep
    \/ CloseBroadcast
    \/ RestRecv("restJoin", LobbyId)
    \/ \E p \in RoomPlayers : RestJoinStep(p)

SpecRoom == InitRoom /\ [][NextRoom]_vars

(***************************************************************************)
(* SpecExpiry: a lobby id around the end of its life.  The id names either *)
(* no record or a lobby its host "a" created at T0 with the hour's expiry  *)
(* on its key; time moves to the expiry and past it.  A plain SET by a     *)
(* handler drops the key's expiry, and then only the expiresAt field ends  *)
(* the lobby.                                                              *)
(***************************************************************************)
\* expiresAt of a lobby created at T0: `createdAt + 60 * 60 * 1000`
ExpiryInstants == {T0 + 60 * 60 * 1000, T0 + 60 * 60 * 1000 + 1}

InitExpiry ==
    /\ impl = "ws"
    /\ now = T0
    /\ lobby \in {NoLobby, CreateLobby("a", T0)}
    /\ lobbyTtl = IF lobby = NoLobby THEN NoTtl ELSE lobby.expiresAt
    /\ game = NoGame
    /\ sessions = [c \in Conns |-> NoSession]
    /\ rooms = [l \in {LobbyId} |-> {}]
    /\ open = [c \in Conns |-> TRUE]
    /\ redisq = <<>>
    /\ restq = <<>>
    /\ lastOk = "none"
    /\ roleAt = EmptyMap
    /\ last = NoEvent

NextExpiry ==
    \/ \E t \in ExpiryInstants : Tick(t)
    \/ \E c \in Conns : RecvJoin(c, LobbyId)
    \/ \E p \in RoomPlayers : HeadIs("join", "get") /\ p = ClientId(Head(redisq).conn) /\ JoinStep(p)
    \/ JoinDone
    \/ \E c \in Conns : RecvRole(c)
    \/ \E sel \in RoomSelections : RoleStep(sel)
    \/ RoleBroadcast
    \/ \E c \in Conns : RecvHeartbeat(c)
    \/ HeartbeatStep
    \/ \E c \in Conns : Close(c)
    \/ CloseStep
    \/ CloseBroadcast

SpecExpiry == InitExpiry /\ [][NextExpiry]_vars

(***************************************************************************)
(* SpecWatch: connections open the game page.  The game id names either no *)
(* game or the game the host started; c1 joined the lobby as "a" and is in *)
(* the room, c2 is a fresh connection.  Both send joinGame while pieces    *)
(* are selected and connections close.                                     *)
(***************************************************************************)
WatchSelectReqs == {r \in SelectReqs : r.playerId = "a" /\ r.piece \in {"Q", "Z"}}

InitWatch ==
    /\ impl = "ws"
    /\ now = T0
    /\ lobby = FullLobby
    /\ lobbyTtl = NoTtl
    /\ game \in {NoGame, StartGame(FullLobby, T0)}
    /\ sessions = [c \in Conns |-> IF c = "c1" THEN Session(LobbyId, "a") ELSE NoSession]
    /\ rooms = [l \in {LobbyId} |-> {"c1"}]
    /\ open = [c \in Conns |-> TRUE]
    /\ redisq = <<>>
    /\ restq = <<>>
    /\ lastOk = "none"
    /\ roleAt = lobby.lastRoleChangeAt
    /\ last = NoEvent

NextWatch ==
    \/ \E c \in Conns : RecvJoinGame(c, LobbyId)
    \/ \E p \in JoinGamePlayers : JoinGameStep(p)
    \/ \E c \in Conns : RecvSelectPiece(c, LobbyId)
    \/ \E req \in WatchSelectReqs : SelectPieceStep(req)
    \/ SelectPieceBroadcast
    \/ \E c \in Conns : Close(c)
    \/ CloseStep
    \/ CloseBroadcast

SpecWatch == InitWatch /\ [][NextWatch]_vars

(***************************************************************************)
(* SpecSweep: GET /api/lobbies/:id on a stored lobby.  The route takes the *)
(* record as it finds it: each player's lastSeen is absent (the field is   *)
(* optional, `lobby.lastSeen || {}`), T0 or T0 + 1, and the roles are all  *)
(* taken or one slot is free.  Time runs from T0 + 1 to the instants at    *)
(* which the players seen at T0, and then those seen at T0 + 1, are stale, *)
(* and past the lobby's expiresAt.                                         *)
(***************************************************************************)
SweepSeen == UNION {[D -> {T0, T0 + 1}] : D \in SUBSET PlayerIds}

SweepLobbies ==
    {[FullLobby EXCEPT !.lastSeen = ls, !.roles = r] :
        ls \in SweepSeen, r \in {FullLobby.roles, Del(FullLobby.roles, "blackBrain")}}

SweepInstants == {T0 + STALE_MS + 1, T0 + STALE_MS + 2, T0 + 60 * 60 * 1000 + 1}

InitSweep ==
    /\ impl = "ws"
    /\ now = T0 + 1
    /\ lobby \in SweepLobbies
    /\ lobbyTtl = NoTtl
    /\ game = NoGame
    /\ sessions = [c \in Conns |-> NoSession]
    /\ rooms = [l \in {LobbyId} |-> {}]
    /\ open = [c \in Conns |-> TRUE]
    /\ redisq = <<>>
    /\ restq = <<>>
    /\ lastOk = "none"
    /\ roleAt = lobby.lastRoleChangeAt
    /\ last = NoEvent

NextSweep ==
    \/ \E t \in SweepInstants : Tick(t)
    \/ RestRecv("restGet", LobbyId)
    \/ RestGetStep

SpecSweep == InitSweep /\ [][NextSweep]_vars

(***************************************************************************)
(* SpecTwoRooms: two lobbies with a started game each.  c1 joined lobby L  *)
(* as "a" and is in its room; c2 is a fresh connection.  The connections   *)
(* join lobby L, open the game page of either game, and close.             *)
(***************************************************************************)
TwoRoomIds == {LobbyId, OtherLobbyId}

InitTwoRooms ==
    /\ impl = "ws"
    /\ now = T0
    /\ lobby = FullLobby
    /\ lobbyTtl = NoTtl
    /\ game = StartGame(FullLobby, T0)
    /\ sessions = [c \in Conns |-> IF c = "c1" THEN Session(LobbyId, "a") ELSE NoSession]
    /\ rooms = [l \in TwoRoomIds |-> IF l = LobbyId THEN {"c1"} ELSE {}]
    /\ open = [c \in Conns |-> TRUE]
    /\ redisq = <<>>
    /\ restq = <<>>
    /\ lastOk = "none"
    /\ roleAt = lobby.lastRoleChangeAt
    /\ last = NoEvent

NextTwoRooms ==
    \/ \E c \in Conns, gid \in TwoRoomIds : RecvJoinGame(c, gid)
    \/ \E p \in JoinGamePlayers : JoinGameStep(p)
    \/ \E c \in Conns : RecvJoin(c, LobbyId)
    \/ \E p \in LobbyPlayers : HeadIs("join", "get") /\ p = ClientId(Head(redisq).conn) /\ JoinStep(p)
    \/ JoinDone
    \/ \E c \in Conns : Close(c)
    \/ CloseStep
    \/ CloseBroadcast

SpecTwoRooms == InitTwoRooms /\ [][NextTwoRooms]_vars

(***************************************************************************)
(* Vocabulary of the properties.                                           *)
(***************************************************************************)
\* the error taxonomy: the class of each error text the handlers send
ErrClass(e) ==
    CASE e \in {"Not your turn (hand)", "Not your turn (brain)", "Only host can start"}
            -> "Forbidden"
      [] e \in {"Piece already selected", "Role already occupied"} -> "Conflict"
      [] e \in {"Invalid piece", "No piece at source", "Wrong side piece",
                "Must move selected piece type"} -> "InvalidInput"
      [] e \in {"Hand must select a piece first", "No legal moves for selected piece",
                "All roles must be filled"} -> "Precondition"
      [] e = "Illegal move" -> "IllegalMove"
      [] e = "Cooldown" -> "Cooldown"
      [] e \in {"Lobby not found or expired", "Game not found"} -> "NotFound"
      [] e = "Lobby expired" -> "Expired"
      [] OTHER -> e

Terminal == {"WHITE_WON", "BLACK_WON", "DRAW"}

HandOf(g) == IF g.turn = "WHITE" THEN g.players.whiteHand ELSE g.players.blackHand

BrainOf(g) == IF g.turn = "WHITE" THEN g.players.whiteBrain ELSE g.players.blackBrain

SideOf(g) == IF g.turn = "WHITE" THEN "w" ELSE "b"

RoomOpen == {c \in rooms[LobbyId] : open[c]}

\* the latest step ended a handler's checks: it answered or it wrote
Decided(op) == last.op = op /\ last.step \in {"reply", "set"} /\ last.snap # NoGame

ErrorOnlyToSender == last.msgs = {[to |-> last.conn, msg |-> ErrorMsg(last.err)]}

\* the same, for a sender that may have closed while its handler was suspended
ErrorOnlyToOpenSender ==
    last.msgs = IF open[last.conn] THEN {[to |-> last.conn, msg |-> ErrorMsg(last.err)]} ELSE {}

\* a step in which a handler that read the game resumes and accepts the request
Accepts(op) == HeadIs(op, "get") /\ last'.step = "set"

(***************************************************************************)
(* C1.  In every stored lobby no player id occupies more than one of the   *)
(* four role slots, whatever the sequence and interleaving of the lobby    *)
(* operations.                                                             *)
(***************************************************************************)
SlotsOf(lob, p) == {k \in DOMAIN lob.roles : lob.roles[k] = p}

C1_OneSlotPerPlayer ==
    lobby # NoLobby =>
        /\ DOMAIN lobby.roles \subseteq RoleKeys
        /\ \A p \in PlayerIds : Cardinality(SlotsOf(lobby, p)) <= 1

\* a role request of a player who held a slot was accepted for another slot
C1_Witness ==
    /\ last.op \in {"role", "restRole"}
    /\ last.step = "set"
    /\ SlotsOf(last.snap, last.req.playerId) # {}
    /\ last.req.selection # NullSelection
    /\ roleKeyFromSelection(last.req.selection) \notin SlotsOf(last.snap, last.req.playerId)
    /\ lobby = last.out

(***************************************************************************)
(* C2.  The accepted game operations alternate: an accepted selectPiece is *)
(* never directly preceded by another accepted selectPiece, and an         *)
(* accepted makeMove is directly preceded by an accepted selectPiece.      *)
(***************************************************************************)
C2_Alternation ==
    [][/\ Accepts("selectPiece") => lastOk # "selectPiece"
       /\ Accepts("makeMove") => lastOk = "selectPiece"]_vars

(***************************************************************************)
(* C3.  With a piece selected, makeMove is answered Forbidden when the     *)
(* sender is not the Brain of the side to move, else InvalidInput when the *)
(* from-square is empty, holds the other colour or another kind, else      *)
(* IllegalMove when the rules reject the move, and is accepted otherwise.  *)
(***************************************************************************)
C3_Verdict(g, r) ==
    LET pc == Board(g.fen)[r.from]
    IN IF r.playerId # BrainOf(g) THEN "Forbidden"
       ELSE IF \/ pc = NoPiece
               \/ pc.color # SideOf(g)
               \/ ToUpperCase(pc.type) # g.selectedPiece
            THEN "InvalidInput"
       ELSE IF ~(\E m \in LegalMoves(g.fen) : m.from = r.from /\ m.to = r.to)
            THEN "IllegalMove"
       ELSE "ok"

C4_MoveEffects ==
    /\ (last.op = "makeMove" /\ last.step = "set") =>
          LET g == last.snap
              mv == CHOOSE m \in LegalMoves(g.fen) :
                        m.from = last.req.from /\ m.to = last.req.to
          IN ~isGameOver(mv.after) =>
                /\ game = last.out
                /\ game.fen = mv.after
                /\ game.moveNumber = g.moveNumber + 1
                /\ game.selectedPiece = "null"
                /\ game.moves = g.moves \o <<mv.san>>
                /\ game.turn # g.turn
                /\ game.turn \in {"WHITE", "BLACK"}
                /\ game.status = "ACTIVE"
                /\ game.players = g.players
    /\ (last.op = "makeMove" /\ last.step = "bcast") =>
          /\ last.out.selectedPiece = "null"
          /\ Len(last.out.moves) = last.out.moveNumber
          /\ last.msgs = {[to |-> c, msg |-> [type |-> "game", game |-> last.out]] :
                             c \in RoomOpen}

C4_Witness ==
    /\ last.op = "makeMove"
    /\ last.step = "bcast"
    /\ last.out.status = "ACTIVE"
    /\ last.out.moves = <<"Qb3">>
    /\ last.msgs # {}

(***************************************************************************)
(* C5.  An accepted makeMove into a position that ends the game stores a   *)
(* status of WHITE_WON, BLACK_WON or DRAW and leaves the turn as it was.   *)
(***************************************************************************)
C5_TerminalKeepsTurn ==
    (last.op = "makeMove" /\ last.step = "set" /\ isGameOver(last.out.fen)) =>
        /\ game = last.out
        /\ game.status \in Terminal
        /\ game.turn = last.snap.turn

(***************************************************************************)
(* C6.  Once the stored status is WHITE_WON, BLACK_WON or DRAW, no step    *)
(* changes the stored position, move log, turn, selection or status.       *)
(***************************************************************************)
C6_TerminalAbsorbing ==
    [][game.status \in Terminal =>
          /\ game'.fen = game.fen
          /\ game'.moves = game.moves
          /\ game'.turn = game.turn
          /\ game'.selectedPiece = game.selectedPiece
          /\ game'.status = game.status]_vars

(***************************************************************************)
(* C7.  A selectPiece or makeMove handler that resumes while the stored    *)
(* status is not ACTIVE answers with an error and does not write the game. *)
(***************************************************************************)
C7_NotActiveRejected ==
    [][(/\ HeadIs("selectPiece", "get") \/ HeadIs("makeMove", "get")
        /\ last'.step \in {"reply", "set"}
        /\ game.status # "ACTIVE") =>
          /\ last'.step = "reply"
          /\ last'.err \notin {"", "silent"}
          /\ game' = game]_vars

(***************************************************************************)
(* C8.  As claimed: with no piece selected, every makeMove is answered     *)
(* with the Precondition error, whoever sends it.                          *)
(***************************************************************************)
C8_AlwaysPrecondition ==
    (Decided("makeMove") /\ last.snap.selectedPiece = "null") =>
        last.step = "reply" /\ ErrClass(last.err) = "Precondition"

(***************************************************************************)
(* C8, amended.  With no piece selected, every makeMove is rejected: with  *)
(* Forbidden when the sender is not the Brain of the side to move, and     *)
(* with the Precondition error otherwise, whatever the move.               *)
(***************************************************************************)
C8_ForbiddenElsePrecondition ==
    (Decided("makeMove") /\ last.snap.selectedPiece = "null") =>
        /\ last.step = "reply"
        /\ ErrClass(last.err) =
              IF last.req.playerId # BrainOf(last.snap) THEN "Forbidden" ELSE "Precondition"
        /\ ErrorOnlyToSender

C8_Witness ==
    /\ Decided("makeMove")
    /\ last.snap.selectedPiece = "null"
    /\ last.req.playerId = BrainOf(last.snap)
    /\ last.err = "Hand must select a piece first"

(***************************************************************************)
(* C9.  selectPiece is answered Forbidden when the sender is not the Hand  *)
(* of the side to move, else Conflict when a piece is already selected,    *)
(* else InvalidInput when the piece is not one of K Q R B N P, else        *)
(* Precondition when the kind has no legal move; it is accepted, and       *)
(* selectedPiece set, only when none of the four applies.                  *)
(***************************************************************************)
C9_Verdict(g, r) ==
    IF r.playerId # HandOf(g) THEN "Forbidden"
    ELSE IF g.selectedPiece # "null" THEN "Conflict"
    ELSE IF r.piece \notin {"K", "Q", "R", "B", "N", "P"} THEN "InvalidInput"
    ELSE IF ~(\E m \in LegalMoves(g.fen) : ToUpperCase(m.piece) = r.piece) THEN "Precondition"
    ELSE "ok"

C9_Checks ==
    IF C9_Verdict(last.snap, last.req) = "ok"
    THEN last.step = "set" /\ last.err = "" /\ game.selectedPiece = last.req.piece
    ELSE /\ last.step = "reply"
         /\ ErrClass(last.err) = C9_Verdict(last.snap, last.req)
         /\ ErrorOnlyToSender

\* as claimed: for every game
C9_SelectPieceChecks == Decided("selectPiece") => C9_Checks

(***************************************************************************)
(* C9, amended.  The same, for a game whose status is ACTIVE: the Next.js  *)
(* server answers a request for a game that is over with "Game is over"    *)
(* before any of the four checks.                                          *)
(***************************************************************************)
C9_ActiveSelectPieceChecks ==
    (Decided("selectPiece") /\ last.snap.status = "ACTIVE") => C9_Checks

C9_Witness ==
    /\ Decided("selectPiece")
    /\ last.snap.status = "ACTIVE"
    /\ last.err = "No legal moves for selected piece"

(***************************************************************************)
(* C10.  An accepted selectPiece changes only selectedPiece of the stored  *)
(* game: position, turn, moveNumber, moves, status and players stay as     *)
(* they were stored; and the broadcast that follows sends one              *)
(* pieceSelected message, with the piece and nextActor =                   *)
(* <side to move>_BRAIN, to each open member of the room.                  *)
(***************************************************************************)
C10_SelectOnlySelection ==
    /\ [][Accepts("selectPiece") =>
             game' = [game EXCEPT !.selectedPiece = last'.req.piece]]_vars
    /\ [](last.op = "selectPiece" /\ last.step = "bcast" =>
             last.msgs = {[to |-> c,
                           msg |-> [type |-> "pieceSelected",
                                    gameId |-> LobbyId,
                                    piece |-> last.req.piece,
                                    nextActor |-> last.out.turn \o "_BRAIN"]] :
                             c \in RoomOpen})

(***************************************************************************)
(* C11.  Once a game is stored, only an accepted selectPiece or makeMove   *)
(* changes it: no step of join, role, heartbeat, joinGame, the disconnect  *)
(* cleanup or a further start changes the stored game.                     *)
(***************************************************************************)
C11_OnlyGameOpsChange ==
    [][(game # NoGame /\ game' # game) => last'.op \in {"selectPiece", "makeMove"}]_vars

(***************************************************************************)
(* C12.  A start request is answered Forbidden when the requester is not   *)
(* the lobby's hostId (without hostId: not the first player of the list),  *)
(* else Precondition when one of the four role slots is empty, and is      *)
(* accepted otherwise; a rejected start does not touch the stored game.    *)
(***************************************************************************)
C12_Host(lob) ==
    IF "hostId" \in DOMAIN lob THEN lob.hostId
    ELSE IF Len(lob.players) > 0 THEN lob.players[1].id
    ELSE "undefined"

C12_Verdict(lob, p) ==
    IF p # C12_Host(lob) THEN "Forbidden"
    ELSE IF \E k \in RoleKeys : k \notin DOMAIN lob.roles THEN "Precondition"
    ELSE "ok"

C12_StartChecks ==
    /\ []((last.op = "start" /\ last.step \in {"reply", "set"} /\ last.snap # NoLobby) =>
             IF C12_Verdict(last.snap, last.req.playerId) = "ok"
             THEN last.step = "set" /\ last.err = ""
             ELSE /\ last.step = "reply"
                  /\ ErrClass(last.err) = C12_Verdict(last.snap, last.req.playerId)
                  /\ ErrorOnlyToOpenSender)
    /\ [][(last'.op = "start" /\ last'.step = "reply") => game' = game]_vars

C12_Witness ==
    /\ last.op = "start"
    /\ last.step = "reply"
    /\ "hostId" \notin DOMAIN last.snap
    /\ last.req.playerId = "a"
    /\ last.err = "Only host can start"
    /\ last.msgs # {}
    /\ game = NoGame

(***************************************************************************)
(* C13.  An accepted start stores under the lobby's id a game with the     *)
(* initial position, moveNumber 0, turn WHITE, no selection, status        *)
(* ACTIVE, no moves, the four role ids of the lobby and, as observers,     *)
(* exactly the lobby's players that hold no role; the broadcast that       *)
(* follows sends each open member of the room the start message with the   *)
(* game id and the game, every start message before every game message.    *)
(***************************************************************************)
C13_StartEffects ==
    /\ (last.op = "start" /\ last.step = "set") =>
          LET lob == last.snap
              obs == game.players.observers
          IN /\ game = last.out
             /\ game.id = lob.id
             /\ game.lobbyId = lob.id
             /\ game.fen = InitialFen
             /\ game.moveNumber = 0
             /\ game.turn = "WHITE"
             /\ game.selectedPiece = "null"
             /\ game.status = "ACTIVE"
             /\ game.moves = <<>>
             /\ \A k \in RoleKeys : game.players[k] = lob.roles[k]
             /\ {obs[i] : i \in 1..Len(obs)} =
                    PlayerIdsOf(lob) \ {lob.roles[k] : k \in RoleKeys}
             /\ Len(obs) = Cardinality({obs[i] : i \in 1..Len(obs)})
    /\ (last.op = "start" /\ last.step = "bcast") =>
          /\ last.msgs = {[to |-> c, msg |-> [type |-> "start", gameId |-> last.out.id]] :
                             c \in RoomOpen}
                         \cup {[to |-> c, msg |-> [type |-> "game", game |-> last.out]] :
                                  c \in RoomOpen}
          /\ Len(last.sent) = 2 * Cardinality(RoomOpen)
          /\ \A i, j \in 1..Len(last.sent) :
                  (last.sent[i].msg.type = "start" /\ last.sent[j].msg.type = "game") => i < j

C13_Witness ==
    /\ last.op = "start"
    /\ last.step = "bcast"
    /\ last.out.players.observers = <<"e">>
    /\ RoomOpen = Conns
    /\ Len(last.sent) = 4

(***************************************************************************)
(* C14.  A role request of player p that is decided at time t is answered  *)
(* Cooldown exactly when t minus the instant of p's previous accepted role *)
(* change is less than 3000, over the realtime handler and the route, in   *)
(* every interleaving.                                                     *)
(***************************************************************************)
C14_RoleDecided ==
    /\ HeadIs("role", "get") \/ RestHeadIs("restRole")
    /\ last'.op \in {"role", "restRole"}
    /\ last'.step \in {"reply", "set"}
    /\ last'.req.playerId \in DOMAIN roleAt

C14_Cooldown ==
    [][C14_RoleDecided =>
          (now - roleAt[last'.req.playerId] < 3000 <=> last'.err = "Cooldown")]_vars

(***************************************************************************)
(* C15.  As claimed: a role request for a slot that a different player     *)
(* holds is answered Conflict, and a rejected role request leaves the      *)
(* stored lobby as it was.                                                 *)
(***************************************************************************)
\* a role request was decided on a lobby in which another player holds its slot
C15_SlotTaken ==
    /\ last.op \in {"role", "restRole"}
    /\ last.step \in {"reply", "set"}
    /\ last.snap # NoLobby
    /\ last.req.selection # NullSelection
    /\ LET rk == roleKeyFromSelection(last.req.selection)
       IN rk \in DOMAIN last.snap.roles /\ last.snap.roles[rk] # last.req.playerId

C15_RejectedKeepsLobby ==
    [][(last'.op \in {"role", "restRole"} /\ last'.step = "reply") => lobby' = lobby]_vars

C15_Conflict ==
    /\ [](C15_SlotTaken => last.step = "reply" /\ ErrClass(last.err) = "Conflict")
    /\ C15_RejectedKeepsLobby

(***************************************************************************)
(* C15, amended.  For a lobby that has not expired, a role request for a   *)
(* slot that a different player holds is rejected and leaves the stored    *)
(* lobby as it was: with Cooldown when less than 3000 ms have passed since *)
(* the requester's last role change, and with Conflict otherwise.          *)
(***************************************************************************)
C15_CooldownElseConflict ==
    /\ []((C15_SlotTaken /\ now <= last.snap.expiresAt) =>
             /\ last.step = "reply"
             /\ ErrClass(last.err) =
                   IF now - LastRoleChange(last.snap, last.req.playerId) < 3000
                   THEN "Cooldown" ELSE "Conflict"
             /\ last.op = "role" => ErrorOnlyToOpenSender)
    /\ C15_RejectedKeepsLobby

C15_Witness ==
    /\ C15_SlotTaken
    /\ last.op = "role"
    /\ last.err = "Role already occupied"
    /\ last.snap.roles["whiteHand"] = last.req.playerId
    /\ lobby.roles["whiteHand"] = last.req.playerId
    /\ lobby = last.snap

(***************************************************************************)
(* C16.  A role request for the slot that the requester holds in the lobby *)
(* the handler read, decided 3000 ms or more after the requester's last    *)
(* role change, is accepted and stores that lobby with the same role       *)
(* assignments: only the requester's lastRoleChangeAt and lastSeen differ. *)
(***************************************************************************)
C16_OwnSlot ==
    /\ last.op \in {"role", "restRole"}
    /\ last.step \in {"reply", "set"}
    /\ last.snap # NoLobby
    /\ last.req.selection # NullSelection
    /\ LET rk == roleKeyFromSelection(last.req.selection)
       IN rk \in DOMAIN last.snap.roles /\ last.snap.roles[rk] = last.req.playerId
    /\ now - LastRoleChange(last.snap, last.req.playerId) >= 3000

C17_DisconnectCleanup ==
    /\ (last.op = "close" /\ last.step \in {"reply", "set"} /\ last.snap # NoLobby) =>
          LET p == last.req.playerId
              lob == last.snap
              kept == {i \in 1..Len(lob.players) : lob.players[i].id # p}
          IN /\ last.step = "set"
             /\ lobby = last.out
             /\ p \notin PlayerIdsOf(lobby)
             /\ PlayerIdsOf(lobby) = PlayerIdsOf(lob) \ {p}
             /\ Len(lobby.players) = Cardinality(kept)
             /\ DOMAIN lobby.roles = {k \in DOMAIN lob.roles : lob.roles[k] # p}
             /\ \A k \in DOMAIN lobby.roles : lobby.roles[k] = lob.roles[k]
             /\ DOMAIN lobby.lastSeen = DOMAIN lob.lastSeen \ {p}
             /\ \A q \in DOMAIN lobby.lastSeen : lobby.lastSeen[q] = lob.lastSeen[q]
             /\ [lobby EXCEPT !.players = <<>>, !.roles = EmptyMap, !.lastSeen = EmptyMap]
                  = [lob EXCEPT !.players = <<>>, !.roles = EmptyMap, !.lastSeen = EmptyMap]
    /\ (last.op = "close" /\ last.step = "bcast") =>
          /\ last.conn \notin RoomOpen
          /\ last.req.playerId \notin PlayerIdsOf(last.out)
          /\ last.msgs = {[to |-> c, msg |-> [type |-> "lobby", lobby |-> last.out]] :
                             c \in RoomOpen}

C17_Witness ==
    /\ last.op = "close"
    /\ last.step = "bcast"
    /\ last.conn = "c1"
    /\ last.req.playerId = "a"
    /\ "whiteBrain" \in DOMAIN last.out.roles
    /\ "whiteHand" \notin DOMAIN last.out.roles
    /\ last.msgs = {[to |-> "c2", msg |-> [type |-> "lobby", lobby |-> last.out]]}

(***************************************************************************)
(* C18.  In every stored lobby each role slot that is taken holds the id   *)
(* of a player of that lobby's players list.                               *)
(***************************************************************************)
C18_RolesReferencePlayers ==
    lobby # NoLobby => \A k \in DOMAIN lobby.roles : lobby.roles[k] \in PlayerIdsOf(lobby)

(***************************************************************************)
(* C19.  In every stored lobby the players list holds each player id at    *)
(* most once, whatever the sequence and interleaving of joins (realtime    *)
(* and route) and disconnects.                                             *)
(***************************************************************************)
C19_PlayersUnique ==
    lobby # NoLobby =>
        \A i, j \in 1..Len(lobby.players) :
            lobby.players[i].id = lobby.players[j].id => i = j

\* a join under an id of the list was stored while another join was in flight
C19_Witness ==
    /\ last.op = "join"
    /\ last.step = "set"
    /\ last.req.playerId \in PlayerIdsOf(last.snap)
    /\ Len(last.snap.players) = 2
    /\ lobby = last.out
    /\ Len(lobby.players) = 2
    /\ Len(redisq) = 2

(***************************************************************************)
(* C20.  An accepted join stores the lobby it read with the player         *)
(* appended as an observer if absent and lastSeen stamped for the player;  *)
(* after the write it records the session of the connection, adds the      *)
(* connection to the room, replies joined to the requester and then        *)
(* broadcasts the lobby to the room.  From then until it closes, the       *)
(* connection is sent every lobby broadcast of that lobby.                 *)
(***************************************************************************)
C20_LobbyBroadcast == last.step = "bcast" /\ last.op \in {"join", "role", "close"}

C20_JoinEffects ==
    /\ (last.op = "join" /\ last.step = "set") =>
          LET p == last.req.playerId
              lob == last.snap
          IN /\ lobby = last.out
             /\ lobby.players =
                   IF \E i \in 1..Len(lob.players) : lob.players[i].id = p
                   THEN lob.players
                   ELSE lob.players \o <<[id |-> p, name |-> PlayerName(p), isObserver |-> TRUE]>>
             /\ lobby.lastSeen = [x \in DOMAIN lob.lastSeen \cup {p} |->
                                     IF x = p THEN now ELSE lob.lastSeen[x]]
             /\ [lobby EXCEPT !.players = <<>>, !.lastSeen = EmptyMap]
                  = [lob EXCEPT !.players = <<>>, !.lastSeen = EmptyMap]
    /\ (last.op = "join" /\ last.step = "bcast") =>
          LET c == last.conn
              joined == [to |-> c, msg |-> [type |-> "joined", lobby |-> last.out]]
          IN /\ sessions[c].lobbyId = last.gameId
             /\ sessions[c].playerId = last.req.playerId
             /\ c \in rooms[last.gameId]
             /\ last.msgs = (IF open[c] THEN {joined} ELSE {})
                               \cup {[to |-> x, msg |-> [type |-> "lobby", lobby |-> last.out]] :
                                       x \in RoomOpen}
             /\ open[c] => last.sent[1] = joined /\ Len(last.sent) = 1 + Cardinality(RoomOpen)
    /\ C20_LobbyBroadcast =>
          \A c \in Conns :
              (open[c] /\ sessions[c] # NoSession /\ sessions[c].lobbyId = last.gameId) =>
                  [to |-> c, msg |-> [type |-> "lobby", lobby |-> last.out]] \in last.msgs

C20_Witness ==
    /\ last.op = "join"
    /\ last.step = "bcast"
    /\ last.conn = "c2"
    /\ open["c1"] /\ open["c2"]
    /\ sessions["c1"] # NoSession
    /\ Len(last.sent) = 3
    /\ last.sent[2].to = "c1"

(***************************************************************************)
(* C21.  A join whose handler read no lobby, or a lobby whose expiresAt is *)
(* earlier than now, is answered with an error on the requesting           *)
(* connection, NotFound for the missing lobby and Expired for the expired  *)
(* one; the step leaves the stored lobby, the sessions and the rooms as    *)
(* they were.  Every other join is accepted.                               *)
(***************************************************************************)
C21_JoinRejected ==
    [][(HeadIs("join", "get") /\ last'.op = "join" /\ last'.step \in {"reply", "set"}) =>
          LET lob == Head(redisq).g
              missing == lob = NoLobby
              expired == lob # NoLobby /\ lob.expiresAt < now
          IN IF missing \/ expired
             THEN /\ last'.step = "reply"
                  /\ ErrClass(last'.err) = IF missing THEN "NotFound" ELSE "Expired"
                  /\ last'.msgs = IF open[last'.conn]
                                  THEN {[to |-> last'.conn, msg |-> ErrorMsg(last'.err)]}
                                  ELSE {}
                  /\ lobby' = lobby
                  /\ lobbyTtl' = lobbyTtl
                  /\ sessions' = sessions
                  /\ rooms' = rooms
             ELSE last'.step = "set" /\ last'.err = ""]_vars

\* a join to a lobby that outlived its expiresAt was answered Expired
C21_Witness ==
    /\ last.op = "join"
    /\ last.step = "reply"
    /\ last.err = "Lobby expired"
    /\ last.msgs # {}
    /\ lobby # NoLobby
    /\ sessions[last.conn] = NoSession

(***************************************************************************)
(* C22.  Every request that the server does not carry out is answered with *)
(* exactly one error message on the connection it came from, as long as    *)
(* that connection is open: no request ends without an answer.             *)
(***************************************************************************)
C22_NoSilentFailure ==
    (/\ last.op \in {"join", "role", "start", "heartbeat", "joinGame", "selectPiece", "makeMove"}
     /\ last.step = "reply"
     /\ open[last.conn]) =>
        /\ last.err \notin {"", "silent"}
        /\ last.sent = <<[to |-> last.conn, msg |-> ErrorMsg(last.err)]>>

(***************************************************************************)
(* C23.  A handler step that sends an error message sends that one message *)
(* to the connection of the request and nothing to any other connection;   *)
(* the handler is at its first resumption, so it has written nothing, and  *)
(* the step writes neither the lobby nor the game.                         *)
(***************************************************************************)
C23_SendsError == \E i \in 1..Len(last'.sent) : last'.sent[i].msg.type = "error"

C23_ErrorsTargeted ==
    [][C23_SendsError =>
          /\ redisq # <<>>
          /\ Head(redisq).phase = "get"
          /\ last'.conn = Head(redisq).conn
          /\ last'.sent = <<[to |-> last'.conn, msg |-> ErrorMsg(last'.err)]>>
          /\ lobby' = lobby
          /\ lobbyTtl' = lobbyTtl
          /\ game' = game]_vars

\* an illegal move was refused while another connection was open in the room
C23_Witness ==
    /\ last.op = "makeMove"
    /\ last.err = "Illegal move"
    /\ last.sent = <<[to |-> "c1", msg |-> ErrorMsg("Illegal move")]>>
    /\ open["c2"]
    /\ "c2" \in rooms[LobbyId]

(***************************************************************************)
(* C24.  Messages of one connection are handled one after the other: when  *)
(* the handler of a message reads the session and issues its read of the   *)
(* store, no handler of an earlier message of the same connection is still *)
(* between two of its steps.                                               *)
(***************************************************************************)
\* the step in which a handler starts: it reads the session and, unless it
\* returns at once, issues its redis.get
C24_HandlerStarts ==
    /\ last'.op \in {"join", "role", "start", "heartbeat", "joinGame", "selectPiece", "makeMove"}
    /\ \/ last'.step = "recv"
       \/ last'.step = "reply" /\ redisq' = redisq

C24_ReceiptOrder ==
    [][C24_HandlerStarts =>
          \A i \in 1..Len(redisq) : redisq[i].conn # last'.conn]_vars

(***************************************************************************)
(* C25.  A joinGame whose handler read a game sends that game to the       *)
(* requesting connection and to no other, adds the connection to the room  *)
(* of the game's lobby id, sets the gameId of its session, and leaves the  *)
(* stored game and lobby as they were.  A joinGame whose handler read no   *)
(* game is answered with the not-found error and changes no session and no *)
(* room.                                                                   *)
(***************************************************************************)
C25_JoinGameStep ==
    HeadIs("joinGame", "get") /\ last'.op = "joinGame" /\ last'.step \in {"reply", "bcast"}

C25_JoinGame ==
    [][C25_JoinGameStep =>
          LET h == Head(redisq)
              c == h.conn
          IN /\ last'.conn = c
             /\ game' = game
             /\ lobby' = lobby
             /\ IF h.g # NoGame
                THEN /\ last'.sent = IF open[c]
                                     THEN <<[to |-> c, msg |-> [type |-> "game", game |-> h.g]]>>
                                     ELSE <<>>
                     /\ rooms' = [rooms EXCEPT ![h.g.lobbyId] = @ \cup {c}]
                     /\ sessions'[c].gameId = h.gameId
                     /\ sessions'[c].lobbyId = h.g.lobbyId
                     /\ \A d \in Conns \ {c} : sessions'[d] = sessions[d]
                ELSE /\ ErrClass(last'.err) = "NotFound"
                     /\ last'.sent = IF open[c]
                                     THEN <<[to |-> c, msg |-> ErrorMsg(last'.err)]>>
                                     ELSE <<>>
                     /\ sessions' = sessions
                     /\ rooms' = rooms]_vars

\* a fresh connection was sent the game while another one was in the room
C25_Witness ==
    /\ last.op = "joinGame"
    /\ last.step = "bcast"
    /\ last.conn = "c2"
    /\ last.sent = <<[to |-> "c2", msg |-> [type |-> "game", game |-> last.snap]]>>
    /\ rooms[LobbyId] = {"c1", "c2"}
    /\ open["c1"]
    /\ sessions["c2"].gameId = LobbyId

(***************************************************************************)
(* C26.  The join route and the role route decide as the realtime join and *)
(* role handlers decide on the same lobby, time and request, and an        *)
(* accepted request leaves the lobby the realtime handler would store.     *)
(***************************************************************************)
C26_RouteDecided(op) == last.op = op /\ last.step \in {"reply", "set"}

C26_RoutesAsRealtime ==
    /\ C26_RouteDecided("restJoin") =>
          /\ (last.err = "") <=> (JoinError(last.snap, now) = "")
          /\ last.err = "" => last.out = JoinResult(last.snap, last.req.playerId, now)
    /\ C26_RouteDecided("restRole") =>
          /\ (last.err = "") <=>
                (RoleError(last.snap, last.req.playerId, last.req.selection, now) = "")
          /\ last.err = "" =>
                last.out = RoleResult(last.snap, last.req.playerId, last.req.selection, now)

(***************************************************************************)
(* C27.  The step in which a heartbeat writes sends nothing, stamps        *)
(* lastSeen of the session's player with the current time, and leaves the  *)
(* stored lobby's players, roles and lastRoleChangeAt as they are in the   *)
(* store, whatever join, role and close handlers ran since the heartbeat   *)
(* read the lobby.                                                         *)
(***************************************************************************)
C27_HeartbeatWrites ==
    HeadIs("heartbeat", "get") /\ last'.op = "heartbeat" /\ last'.step = "set"

C27_HeartbeatFrame ==
    [][C27_HeartbeatWrites =>
          /\ last'.sent = <<>>
          /\ lobby # NoLobby
          /\ lobby'.lastSeen[Head(redisq).req.playerId] = now
          /\ lobby'.players = lobby.players
          /\ lobby'.roles = lobby.roles
          /\ lobby'.lastRoleChangeAt = lobby.lastRoleChangeAt]_vars

(***************************************************************************)
(* C28.  When the lobby route reads a lobby for display at time t, every   *)
(* slot whose holder was last seen more than 15000 ms before t (never, if  *)
(* the holder has no lastSeen entry) is emptied, every other taken slot    *)
(* keeps its holder, nothing else of the lobby changes, and the lobby is   *)
(* written to the store exactly when a slot was emptied.                   *)
(***************************************************************************)
C28_ReadForDisplay ==
    /\ RestHeadIs("restGet")
    /\ last'.op = "restGet"
    /\ last'.step \in {"reply", "set"}
    /\ last'.err = ""

C28_StaleSlots(lob, t) ==
    {k \in DOMAIN lob.roles :
        t - (IF lob.roles[k] \in DOMAIN lob.lastSeen THEN lob.lastSeen[lob.roles[k]] ELSE 0)
            > 15000}

C28_Sweep ==
    [][C28_ReadForDisplay =>
          LET lob == Head(restq).g
              emptied == C28_StaleSlots(lob, now)
              shown == last'.out
          IN /\ DOMAIN shown.roles = DOMAIN lob.roles \ emptied
             /\ \A k \in DOMAIN shown.roles : shown.roles[k] = lob.roles[k]
             /\ shown = [lob EXCEPT !.roles = shown.roles]
             /\ (last'.step = "set") <=> (emptied # {})
             /\ lobby' = IF emptied # {} THEN shown ELSE lobby]_vars

\* one holder without a lastSeen entry and one seen too long ago lost their
\* slots while a holder seen in time kept it, and the lobby was written
C28_Witness ==
    /\ last.op = "restGet"
    /\ last.step = "set"
    /\ lobby = last.out
    /\ \E k \in DOMAIN last.snap.roles \ DOMAIN last.out.roles :
           last.snap.roles[k] \notin DOMAIN last.snap.lastSeen
    /\ \E k \in DOMAIN last.snap.roles \ DOMAIN last.out.roles :
           last.snap.roles[k] \in DOMAIN last.snap.lastSeen
    /\ DOMAIN last.out.roles # {}

(***************************************************************************)
(* C29.  Whenever the stored game is ACTIVE with a piece selected, the     *)
(* side to move has a legal move of the selected kind in the stored        *)
(* position, and there is a makeMove request of that side's Brain that the *)
(* checks of the handler accept on the stored game.                        *)
(***************************************************************************)
C29_BrainPhase == game # NoGame /\ game.status = "ACTIVE" /\ game.selectedPiece # "null"

C29_SelectionCanMove ==
    C29_BrainPhase =>
        /\ \E m \in LegalMoves(game.fen) :
              /\ ToUpperCase(m.piece) = game.selectedPiece
              /\ Board(game.fen)[m.from].color = SideOf(game)
        /\ \E req \in MoveReqs :
              /\ req.playerId = BrainOf(game)
              /\ MakeMoveError(game, req) = ""

\* Black's Hand selected a piece after White's move
C29_Witness ==
    /\ C29_BrainPhase
    /\ last.op = "selectPiece"
    /\ last.step = "set"
    /\ game = last.out
    /\ game.turn = "BLACK"
    /\ game.moveNumber >= 1

(***************************************************************************)
(* C30.  An accepted makeMove stores a status that follows the position    *)
(* after the move: on checkmate the side whose piece moved has won, else   *)
(* on stalemate or another draw condition the status is DRAW, else it is   *)
(* ACTIVE.                                                                 *)
(***************************************************************************)
C30_Expected(g, r) ==
    LET mv == CHOOSE m \in LegalMoves(g.fen) : m.from = r.from /\ m.to = r.to
        mover == Board(g.fen)[r.from].color
        fen == mv.after
    IN IF isCheckmate(fen) THEN (IF mover = "w" THEN "WHITE_WON" ELSE "BLACK_WON")
       ELSE IF isStalemate(fen) THEN "DRAW"
       ELSE IF \/ isThreefoldRepetition(fen)
               \/ isInsufficientMaterial(fen)
               \/ isDrawByFiftyMoves(fen)
            THEN "DRAW"
       ELSE "ACTIVE"

C30_StatusAfterMove ==
    (last.op = "makeMove" /\ last.step = "set") =>
        /\ game = last.out
        /\ game.status = C30_Expected(last.snap, last.req)

\* Black mated in a position that is also a draw by the fifty-move counter
C30_Witness ==
    /\ last.op = "makeMove"
    /\ last.step = "set"
    /\ isCheckmate(game.fen)
    /\ isDrawByFiftyMoves(game.fen)
    /\ game.status = "BLACK_WON"
    /\ impl = "server"

(***************************************************************************)
(* C31.  A broadcast to the room of a lobby sends the message once to each *)
(* connection that is in the room's set and open, and to no other          *)
(* connection: a member that is not open and a connection outside the set  *)
(* get nothing.                                                            *)
(***************************************************************************)
C31_Recipients(type) ==
    {last.sent[i].to : i \in {j \in 1..Len(last.sent) : last.sent[j].msg.type = type}}

C31_BroadcastTargets ==
    (last.step = "bcast" /\ last.op \in {"join", "role", "close"}) =>
        /\ C31_Recipients("lobby") = {c \in Conns : c \in rooms[last.gameId] /\ open[c]}
        /\ \A i, j \in 1..Len(last.sent) :
              (last.sent[i] = last.sent[j] /\ last.sent[i].msg.type = "lobby") => i = j
        /\ \A i \in 1..Len(last.sent) :
              last.sent[i].msg.type = "lobby" => last.sent[i].msg.lobby = last.out

\* a lobby was broadcast while the room held a closed member
C31_Witness ==
    /\ last.step = "bcast"
    /\ last.op \in {"join", "role", "close"}
    /\ \E c \in rooms[LobbyId] : ~open[c]
    /\ C31_Recipients("lobby") # {}
    /\ C31_Recipients("lobby") # rooms[LobbyId]

\* a lobby was broadcast while an open connection was outside the room
C31_WitnessOutside ==
    /\ last.step = "bcast"
    /\ \E c \in Conns \ rooms[LobbyId] : open[c]
    /\ C31_Recipients("lobby") # {}

(***************************************************************************)
(* C32.  At every moment a connection is in the set of at most one room.   *)
(***************************************************************************)
C32_RoomsOf(c) == {l \in DOMAIN rooms : c \in rooms[l]}

C32_OneRoom == \A c \in Conns : Cardinality(C32_RoomsOf(c)) <= 1

(***************************************************************************)
(* C33.  A connection that has closed, and for which no handler is between *)
(* two of its steps, has no entry in the session registry and is in no     *)
(* room.                                                                   *)
(***************************************************************************)
C33_Finished(c) == ~open[c] /\ \A i \in 1..Len(redisq) : redisq[i].conn # c

C33_ClosedIsForgotten ==
    \A c \in Conns :
        C33_Finished(c) =>
            /\ sessions[c] = NoSession
            /\ \A l \in DOMAIN rooms : c \notin rooms[l]

(***************************************************************************)
(* C34.  The error message that answers a role request refused for         *)
(* cooldown has a field retryAfterMs, and its value is 3000 ms minus the   *)
(* time since the player's last role change in the lobby that was read.    *)
(***************************************************************************)
C34_RetryAfter ==
    (last.op = "role" /\ last.step = "reply" /\ last.err = "Cooldown" /\ last.sent # <<>>) =>
        LET m == last.sent[1].msg
            elapsed == now - LastRoleChange(last.snap, last.req.playerId)
        IN /\ "retryAfterMs" \in DOMAIN m
           /\ m.retryAfterMs = 3000 - elapsed

(***************************************************************************)
(* C35.  When the broadcast of an accepted role request shows a slot held  *)
(* by its requester p, the next broadcast is not that of an accepted role  *)
(* request of another player q that shows q in the same slot: nothing      *)
(* between the two broadcasts has vacated the slot.                        *)
(***************************************************************************)
C35_RoleBroadcast(e) == e.op = "role" /\ e.step = "bcast"

C35_SlotExclusive ==
    [][(C35_RoleBroadcast(last) /\ C35_RoleBroadcast(last') /\ HeadIs("role", "set")) =>
          LET p == last.req.playerId
              q == last'.req.playerId
          IN \A k \in DOMAIN last.out.roles \cap DOMAIN last'.out.roles :
                ~(q # p /\ last.out.roles[k] = p /\ last'.out.roles[k] = q)]_vars

(***************************************************************************)
(* C36.  When the game of an accepted makeMove is broadcast, the stored    *)
(* move log has the SAN entry of that move at the index the broadcast      *)
(* shows it at.                                                            *)
(***************************************************************************)
C36_BroadcastMoveStays ==
    (last.op = "makeMove" /\ last.step = "bcast") =>
        LET n == Len(last.out.moves)
        IN /\ Len(game.moves) >= n
           /\ game.moves[n] = last.out.moves[n]

(***************************************************************************)
(* C37.  With no handler or route in flight, the player of every open      *)
(* connection that has a session for the lobby is in the stored players    *)
(* list of the lobby.                                                      *)
(***************************************************************************)
C37_Quiet == redisq = <<>> /\ restq = <<>>
C37_LiveSession(c) == open[c] /\ sessions[c] # NoSession /\ sessions[c].lobbyId = LobbyId
C37_LivePlayerInRoster ==
    C37_Quiet =>
        \A c \in Conns : C37_LiveSession(c) =>
            /\ lobby # NoLobby
            /\ sessions[c].playerId \in PlayerIdsOf(lobby)

(***************************************************************************)
(* C38.  When a selectPiece or makeMove request of a connection that has a *)
(* session has been accepted and its game stored, the session records the  *)
(* player who holds the role expected to act in the game the handler read: *)
(* the hand of the side to move for selectPiece, its brain for makeMove.   *)
(***************************************************************************)
C38_ExpectedActor(g, op) ==
    IF op = "selectPiece"
    THEN (IF g.turn = "WHITE" THEN g.players.whiteHand ELSE g.players.blackHand)
    ELSE (IF g.turn = "WHITE" THEN g.players.whiteBrain ELSE g.players.blackBrain)

C38_SessionPlayerActs ==
    (/\ last.op \in {"selectPiece", "makeMove"}
     /\ last.step = "set"
     /\ sessions[last.conn] # NoSession) =>
        sessions[last.conn].playerId = C38_ExpectedActor(last.snap, last.op)

(***************************************************************************)
(* C39.  When a lobby snapshot has just been broadcast to the room, no     *)
(* handler or route is in flight and the lobby record exists, the          *)
(* broadcast snapshot has the players and the roles of the stored record.  *)
(***************************************************************************)
C39_LobbyBroadcast ==
    /\ last.step = "bcast"
    /\ last.op \in {"join", "role", "close"}
    /\ \E i \in 1..Len(last.sent) : last.sent[i].msg.type = "lobby"

C39_BroadcastMatchesStore ==
    (C39_LobbyBroadcast /\ redisq = <<>> /\ restq = <<>> /\ lobby # NoLobby) =>
        /\ last.out.players = lobby.players
        /\ last.out.roles = lobby.roles

(***************************************************************************)
(* C40.  When a join, role, heartbeat, start or close handler has just     *)
(* stored the lobby record, or the game created from it, the time is not   *)
(* later than the expiresAt of the lobby the handler read.                 *)
(***************************************************************************)
C40_RealtimeWrite ==
    /\ last.op \in {"join", "role", "heartbeat", "start", "close"}
    /\ last.step = "set"

C40_NoWriteAfterExpiry == C40_RealtimeWrite => now <= last.snap.expiresAt

====
